---- MODULE Spec2Model ----
(***************************************************************************)
(* A model of the bbcat-dsp convolution engine (src/src/Convolver.cpp,     *)
(* src/src/Convolver.h): the ConvolverManager, its per-channel Convolver   *)
(* workers and their processing threads.                                   *)
(*                                                                         *)
(* Spec     : the threads.  The audio thread runs ConvolverManager's       *)
(*            operations step by step, every Convolver thread runs         *)
(*            Convolver::Process step by step; sample data is abstracted   *)
(*            to a tag (which tick, silent or not).                        *)
(* CallSpec : Spec with EnableHQProcessing among the calls.                *)
(* FairSpec : Spec with fair scheduling of the threads.                    *)
(* SelectSpec: DspSpec on a library of two IRs with their IR delays, and   *)
(*            SelectIR between any two ticks.                              *)
(* StopSpec : Spec with SetConvolverCount and the manager's destructor     *)
(*            among the calls, under fair scheduling.                      *)
(* DspSpec  : one Convolver with its samples: StartConvolution, one        *)
(*            iteration of Process (low-quality path) and EndConvolution   *)
(*            per tick, in integer arithmetic (a block put out is held     *)
(*            times blocksize squared).                                    *)
(* RouteSpec: one call of ConvolverManager::Convolve with its interleaved  *)
(*            input and output buffers.                                    *)
(* MgrSpec  : the ConvolverManager from its construction on, one call of   *)
(*            its interface a step (a Convolve tick as a whole).           *)
(***************************************************************************)
EXTENDS Integers, Sequences, FiniteSets, TLC

VARIABLES
  \* ---- ConvolverManager (Convolver.h:336-348)
  blocksize,         \* uint_t blocksize
  partitions,        \* uint_t partitions (of the IRs loaded last)
  filters,           \* std::vector<APFFilter>: a sequence of filters
  parameters,        \* std::vector<PARAMETERS>: index -> [irindex, delay, level]
  delayscale,        \* double delayscale
  hqproc,            \* bool hqproc
  updateparameters,  \* bool updateparameters
  irdelays,          \* std::vector<pair<double,double>>: index -> [dynamic, static]
  convolvers,        \* std::vector<Convolver *>: index -> Convolver object
  \* ---- the audio thread's position
  mpc,               \* "idle" between calls, else the step of the call it is in
  mi,                \* the loop index i of Convolve / the target of SetConvolverCount
  tick,              \* tag of the current tick's data: "even" or "odd"
  \* ---- history variables
  started,           \* index -> StartConvolution signalled startsignal in the tick under way
  zerorun,           \* index -> all-zero blocks the convolver received in a row, up to
                     \*          its maxzeroblocks
  \* ---- one Convolver and its samples (DspSpec)
  dfilters,          \* the filters of the manager it belongs to
  dcv,               \* the Convolver object, input[] and output[] holding samples
  dpr,               \* the locals of its Process thread and its BlockConvolver
  dmix,              \* what EndConvolution added to the output buffer in the last tick
  dpc,               \* "idle" between ticks, "start" after StartConvolution
  dref,              \* history: a Process that convolves and runs in every tick
  dscn,              \* history: the input and parameters so far
  dfresh,            \* history: a thread created at the block that reopened the gate
  \* ---- Convolve with its interleaved buffers (RouteSpec)
  rcall,             \* the arguments of the call: input, output, channel counts
  rconv,             \* std::vector<Convolver *>, input[] and output[] holding samples
  rproc,             \* index -> the locals of that Convolver's Process thread
  rpc,               \* "idle" between calls, "start" / "end" in the two loops
  ri,                \* the loop index i
  roob,              \* history: the call under way has read outside the input buffer
  rlib,              \* std::vector<Filter> filters of the manager during the calls
  \* ---- the ConvolverManager and its caller's calls, one call a step (MgrSpec)
  mgr,               \* the manager's fields (Convolver.h:336-348), as a record
  mcall              \* history: the last call, its arguments and what it returned

thrvars == <<blocksize, partitions, filters, parameters, delayscale, hqproc,
             updateparameters, irdelays, convolvers, mpc, mi, tick, started, zerorun>>

dspvars == <<dfilters, dcv, dpr, dmix, dpc, dref, dscn, dfresh>>

rtvars == <<rcall, rconv, rproc, rpc, ri, roob, rlib>>

callvars == <<mgr, mcall>>

vars == <<thrvars, dspvars, rtvars, callvars>>

mgrvars == <<blocksize, partitions, filters, parameters, delayscale, hqproc,
             updateparameters, irdelays>>

(***************************************************************************)
(* Bounds of the model.                                                    *)
(***************************************************************************)
BlockSize == 2            \* the partition size given to the constructor
MaxAdditionalDelay == 3   \* Convolver::maxadditionaldelay, scaled to the block size
MaxConvolvers == 2        \* largest argument of SetConvolverCount
MaxIRs == 2               \* largest number of IRs given to CreateIRs
MaxIRLen == 3             \* largest IR length given to CreateIRs
MaxDelayArg == 3          \* largest delay given to SelectIR
MaxAge == 4               \* ticks counted from the first one
MaxChannels == 2          \* largest channel count given to Convolve
MaxCalls == 1             \* calls of Convolve followed with their buffers
MaxOps == 4               \* calls of the manager's interface followed from its construction

NULL == 0 - 1             \* the null filter pointer (filter indices are >= 0)
Uninit == "uninit"        \* tag of a buffer never written
Torn == "torn"            \* tag of an output block that is being written
OtherTick(t) == IF t = "even" THEN "odd" ELSE "even"

Min(a, b) == IF a < b THEN a ELSE b

Size(f) == Cardinality(DOMAIN f)
NoneYet == [i \in {} |-> 0]
Resize(f, n, v) == [i \in 0..(n - 1) |-> IF i \in DOMAIN f THEN f[i] ELSE v]
AllFalse == [i \in 0..(MaxConvolvers - 1) |-> FALSE]

(***************************************************************************)
(* ConvolverManager::CalcPartitions with the default fade {0,0,0,0}:       *)
(* start = 0, len = filterlen - start, partitions = ceil(len / blocksize). *)
(***************************************************************************)
CalcPartitions(filterlen, bs) == (filterlen + bs - 1) \div bs

(***************************************************************************)
(* Convolver::Convolver: a new object and its thread, which starts at the  *)
(* top of Process.  hqproc has no initialiser: hq is whatever the memory   *)
(* held.  input and output are new float[blocksize], not yet written.      *)
(***************************************************************************)
\* a count that leaves the additional delay out
MaxZeroBlocksNoDelay(P, bs) == P + 1

MaxZeroBlocks(P, bs) == P + (MaxAdditionalDelay \div bs) + 1

NewConvolver(bs, P, delay, hq) ==
  [pc |-> "top", startsignal |-> FALSE, donesignal |-> FALSE,
   quitthread |-> FALSE,
   blocksize |-> bs, partitions |-> P,
   zeroblocks |-> 0, maxzeroblocks |-> MaxZeroBlocks(P, bs),
   input |-> Uninit, output |-> Uninit,
   outputdelay |-> delay, outputlevel |-> 1, hqproc |-> hq,
   filter |-> NULL]

(***************************************************************************)
(* Convolver::SetFilter and Convolver::SetParameters: the audio thread     *)
(* stores the targets in the Convolver object.  A filter pointer is        *)
(* modelled by the index of the filter in the manager's vector.            *)
(***************************************************************************)
SetFilter(w, newfilter) ==
  IF newfilter # w.filter THEN [w EXCEPT !.filter = newfilter] ELSE w

SetParameters(w, level, delay, hq) ==
  [w EXCEPT !.outputlevel = level, !.outputdelay = delay, !.hqproc = hq]

(***************************************************************************)
(* ConvolverManager::UpdateConvolverParameters(convolver): the convolvers  *)
(* after the call, given the manager's tables.                             *)
(***************************************************************************)
\* an update that scales the static part of the IR's delay too
UpdateConvolverParametersScaleAll(cs, params, flt, dls, scale, hq, c) ==
  IF c \in DOMAIN cs /\ params[c].irindex \in DOMAIN flt
  THEN LET ir    == params[c].irindex
           delay == IF ir \in DOMAIN dls
                    THEN (dls[ir].static + dls[ir].dynamic) * scale
                    ELSE 0
       IN [cs EXCEPT ![c] = SetParameters(SetFilter(cs[c], ir),
                                          params[c].level,
                                          delay + params[c].delay, hq)]
  ELSE cs

UpdateConvolverParameters(cs, params, flt, dls, scale, hq, c) ==
  IF c \in DOMAIN cs /\ params[c].irindex \in DOMAIN flt
  THEN LET ir    == params[c].irindex
           delay == IF ir \in DOMAIN dls
                    THEN dls[ir].static + dls[ir].dynamic * scale
                    ELSE 0
       IN [cs EXCEPT ![c] = SetParameters(SetFilter(cs[c], ir),
                                          params[c].level,
                                          delay + params[c].delay, hq)]
  ELSE cs

(***************************************************************************)
(* The silence gate: Convolver::StartConvolution's counting of silent      *)
(* blocks and the test it starts the thread by; Convolver::EndConvolution's*)
(* test it waits by.                                                       *)
(***************************************************************************)
\* a counter that does not saturate
CountZeroBlocksUnbounded(w, nonzero) ==
  IF nonzero THEN 0 ELSE w.zeroblocks + 1

\* a counter that wraps instead of saturating
CountZeroBlocksWrapping(w, nonzero) ==
  IF nonzero THEN 0
  ELSE IF w.zeroblocks < w.maxzeroblocks THEN w.zeroblocks + 1
  ELSE 0

CountZeroBlocks(w, nonzero) ==
  IF nonzero THEN 0
  ELSE IF w.zeroblocks < w.maxzeroblocks THEN w.zeroblocks + 1
  ELSE w.zeroblocks

\* a gate that still starts the thread on the block that closes it
StartGateLate(w) == w.zeroblocks <= w.maxzeroblocks

StartGate(w) == w.zeroblocks < w.maxzeroblocks

\* a wait on every convolver, started or not
EndGateAlways(w) == w.zeroblocks <= w.maxzeroblocks

\* a wait decided by Process's test for convolving
EndGatePartitions(w) == w.zeroblocks < w.partitions

EndGate(w) == w.zeroblocks < w.maxzeroblocks

\* a StartConvolution that signals the thread whatever the count
StartConvolutionAlways(w, tag, nonzero) ==
  [w EXCEPT !.input = tag,
            !.zeroblocks = CountZeroBlocks(w, nonzero),
            !.startsignal = TRUE]

\* Convolver::StartConvolution on the block of tick tag, silent or not
StartConvolution(w, tag, nonzero) ==
  LET w1 == [w EXCEPT !.input = tag,
                      !.zeroblocks = CountZeroBlocks(w, nonzero)]
  IN IF StartGate(w1) THEN [w1 EXCEPT !.startsignal = TRUE] ELSE w1

(***************************************************************************)
(* ConvolverManager::CreateIRs(irdata, numirs, irlength) with the default  *)
(* fade.  A filter is modelled by the IR samples it was built from and the *)
(* block size it was built with.                                           *)
(***************************************************************************)
Filter(bs, ir) == [blocksize |-> bs, ir |-> ir]

UnitIRs(numirs, irlength) == [i \in 0..(numirs - 1) |-> [k \in 1..irlength |-> 1]]

Library(bs, irdata) == [i \in DOMAIN irdata |-> Filter(bs, irdata[i])]

CreateIRs(numirs, irlength) ==
  /\ mpc = "idle"
  /\ IF numirs # 0 /\ irlength # 0
     THEN /\ partitions' = CalcPartitions(irlength, blocksize)
          /\ filters' = Library(blocksize, UnitIRs(numirs, irlength))
          /\ updateparameters' = TRUE
     ELSE /\ filters' = NoneYet
          /\ UNCHANGED <<partitions, updateparameters>>
  /\ UNCHANGED <<blocksize, parameters, delayscale, hqproc, irdelays,
                 convolvers, mpc, mi, tick, started, zerorun>>

\* ConvolverManager::SetDelayScale (Convolver.h)
SetDelayScale(scale) ==
  /\ mpc = "idle"
  /\ delayscale' = scale
  /\ updateparameters' = TRUE
  /\ UNCHANGED <<blocksize, partitions, filters, parameters, hqproc, irdelays,
                 convolvers, mpc, mi, tick, started, zerorun>>

\* ConvolverManager::EnableHQProcessing (Convolver.h)
EnableHQProcessing(enable) ==
  /\ mpc = "idle"
  /\ hqproc' = enable
  /\ updateparameters' = TRUE
  /\ UNCHANGED <<blocksize, partitions, filters, parameters, delayscale,
                 irdelays, convolvers, mpc, mi, tick, started, zerorun>>

(***************************************************************************)
(* ConvolverManager::SelectIR(convolver, ir, level, delay): the parameter  *)
(* table and the convolvers after the call (unchanged when it fails).      *)
(***************************************************************************)
\* a SelectIR that checks the convolver index only
SelectIROkAnyIR(cs, flt, convolver, ir) == convolver \in DOMAIN cs

SelectIROk(cs, flt, convolver, ir) == convolver \in DOMAIN cs /\ ir \in DOMAIN flt

\* a SelectIR that stores the IR index and the level but not the delay
SelectIRParamsNoDelay(params, cs, flt, convolver, ir, level, delay) ==
  IF SelectIROk(cs, flt, convolver, ir)
  THEN [params EXCEPT ![convolver] = [irindex |-> ir, delay |-> @.delay, level |-> level]]
  ELSE params

SelectIRParams(params, cs, flt, convolver, ir, level, delay) ==
  IF SelectIROk(cs, flt, convolver, ir)
  THEN [params EXCEPT ![convolver] = [irindex |-> ir, delay |-> delay, level |-> level]]
  ELSE params

SelectIRConvolvers(params, cs, flt, dls, scale, hq, convolver, ir, level, delay) ==
  IF SelectIROk(cs, flt, convolver, ir)
  THEN UpdateConvolverParameters(
         cs, SelectIRParams(params, cs, flt, convolver, ir, level, delay),
         flt, dls, scale, hq, convolver)
  ELSE cs

SelectIR(convolver, ir, level, delay) ==
  /\ mpc = "idle"
  /\ parameters' = SelectIRParams(parameters, convolvers, filters, convolver, ir, level, delay)
  /\ convolvers' = SelectIRConvolvers(parameters, convolvers, filters, irdelays,
                                      delayscale, hqproc, convolver, ir, level, delay)
  /\ UNCHANGED <<blocksize, partitions, filters, delayscale, hqproc,
                 updateparameters, irdelays, mpc, mi, tick, started, zerorun>>

(***************************************************************************)
(* ConvolverManager::SetConvolverCount(nconvolvers).  Growing: each new    *)
(* Convolver is created with the manager's current block size and          *)
(* partitions and then SelectIR(index, 0) is called (level 1.0, delay 0.0  *)
(* by default).  parameters.resize() value-initialises the new entries.    *)
(* Shrinking deletes Convolvers from the back; each delete stops the       *)
(* thread (StopThreadStep, SignalQuitStep, JoinStep below).                *)
(***************************************************************************)
DefaultParameters == [irindex |-> 0, delay |-> 0, level |-> 0]

RECURSIVE GrowConvolvers(_, _, _, _, _, _, _, _, _, _)
GrowConvolvers(cs, params, n, hqs, bs, P, flt, dls, scale, hq) ==
  IF Size(cs) >= n THEN [convolvers |-> cs, parameters |-> params]
  ELSE LET c   == Size(cs)
           cs1 == cs @@ (c :> NewConvolver(bs, P, 0, hqs[c]))
       IN GrowConvolvers(
            SelectIRConvolvers(params, cs1, flt, dls, scale, hq, c, 0, 1, 0),
            SelectIRParams(params, cs1, flt, c, 0, 1, 0),
            n, hqs, bs, P, flt, dls, scale, hq)

SetConvolverCount(nconvolvers) ==
  /\ mpc = "idle"
  /\ \E hqs \in [0..(MaxConvolvers - 1) -> BOOLEAN] :
       LET grown == GrowConvolvers(convolvers,
                                   Resize(parameters, nconvolvers, DefaultParameters),
                                   nconvolvers, hqs, blocksize, partitions, filters,
                                   irdelays, delayscale, hqproc)
       IN /\ parameters' = grown.parameters
          /\ convolvers' = grown.convolvers
  /\ IF Size(convolvers) > nconvolvers
     THEN mpc' = "stop" /\ mi' = nconvolvers
     ELSE UNCHANGED <<mpc, mi>>
  /\ started' = AllFalse
  /\ zerorun' = [c \in 0..(MaxConvolvers - 1) |->
                  IF c \in DOMAIN convolvers /\ c < nconvolvers THEN zerorun[c] ELSE 0]
  /\ UNCHANGED <<blocksize, partitions, filters, delayscale, hqproc,
                 updateparameters, irdelays, tick>>

(***************************************************************************)
(* The manager set up for streaming.  ConvolverManager(BlockSize) was      *)
(* constructed (partitions 0, delayscale 1.0, hqproc and updateparameters  *)
(* true), CreateIRs loaded MaxIRs IRs of one block (one partition), and    *)
(* SetConvolverCount(n) created the convolvers, whose threads have not run *)
(* yet.                                                                    *)
(***************************************************************************)
ThreadInit(n) ==
  /\ blocksize = BlockSize
  /\ partitions = CalcPartitions(BlockSize, BlockSize)
  /\ filters = Library(BlockSize, UnitIRs(MaxIRs, BlockSize))
  /\ delayscale = 1
  /\ hqproc = TRUE
  /\ updateparameters = TRUE
  /\ irdelays = NoneYet
  /\ LET grown == GrowConvolvers(NoneYet, Resize(NoneYet, n, DefaultParameters), n,
                                 [c \in 0..(MaxConvolvers - 1) |-> TRUE],
                                 BlockSize, partitions, filters, irdelays, 1, TRUE)
     IN /\ parameters = grown.parameters
        /\ convolvers = grown.convolvers
  /\ mpc = "idle"
  /\ mi = 0
  /\ tick = "even"
  /\ started = AllFalse
  /\ zerorun = [c \in 0..(MaxConvolvers - 1) |-> 0]

\* ConvolverManager::~ConvolverManager: the delete loop of SetConvolverCount run
\* until no Convolver is left (mi = NULL: no count to stop at)
DestroyManager ==
  /\ mpc = "idle"
  /\ mpc' = IF Size(convolvers) > 0 THEN "stop" ELSE "gone"
  /\ mi' = NULL
  /\ started' = AllFalse
  /\ UNCHANGED <<mgrvars, convolvers, tick, zerorun>>

\* a StopThread that signals the thread without setting quitthread
StopThreadStepNoQuit ==
  /\ mpc = "stop"
  /\ mpc' = "stopsignal"
  /\ UNCHANGED <<mgrvars, convolvers, mi, tick, started, zerorun>>

\* Convolver::StopThread of the last Convolver: quitthread = true
StopThreadStep ==
  /\ mpc = "stop"
  /\ convolvers' = [convolvers EXCEPT ![Size(convolvers) - 1].quitthread = TRUE]
  /\ mpc' = "stopsignal"
  /\ UNCHANGED <<mgrvars, mi, tick, started, zerorun>>

\* Convolver::StopThread: startsignal.Signal()
SignalQuitStep ==
  /\ mpc = "stopsignal"
  /\ convolvers' = [convolvers EXCEPT ![Size(convolvers) - 1].startsignal = TRUE]
  /\ mpc' = "join"
  /\ UNCHANGED <<mgrvars, mi, tick, started, zerorun>>

\* Convolver::StopThread: pthread_join, then the Convolver is deleted and popped
JoinStep ==
  /\ mpc = "join"
  /\ convolvers[Size(convolvers) - 1].pc = "exited"
  /\ convolvers' = [c \in 0..(Size(convolvers) - 2) |-> convolvers[c]]
  /\ mpc' = IF Size(convolvers) - 1 > mi /\ Size(convolvers) - 1 > 0 THEN "stop"
             ELSE IF mi = NULL THEN "gone" ELSE "idle"
  /\ UNCHANGED <<mgrvars, mi, tick, started, zerorun>>

(***************************************************************************)
(* ConvolverManager::Convolve, one step of the audio thread at a time.     *)
(***************************************************************************)
\* entry: with no convolvers both loops are empty and the flag is cleared
BeginConvolve ==
  /\ mpc = "idle"
  /\ tick' = OtherTick(tick)
  /\ started' = AllFalse
  /\ mi' = 0
  /\ IF Size(convolvers) = 0
     THEN mpc' = "idle" /\ updateparameters' = FALSE
     ELSE mpc' = "start" /\ UNCHANGED updateparameters
  /\ UNCHANGED <<blocksize, partitions, filters, parameters, delayscale, hqproc,
                 irdelays, convolvers, zerorun>>

\* one iteration of the first loop; after the last one the flag is cleared
StartStep(nonzero) ==
  /\ mpc = "start"
  /\ LET cs1 == IF updateparameters
                THEN UpdateConvolverParameters(convolvers, parameters, filters,
                                               irdelays, delayscale, hqproc, mi)
                ELSE convolvers
         w   == StartConvolution(cs1[mi], tick, nonzero)
     IN /\ convolvers' = [cs1 EXCEPT ![mi] = w]
        /\ started' = [started EXCEPT ![mi] = w.startsignal /\ ~cs1[mi].startsignal]
        /\ zerorun' = [zerorun EXCEPT ![mi] = IF nonzero THEN 0
                                               ELSE Min(@ + 1, w.maxzeroblocks)]
  /\ IF mi + 1 < Size(convolvers)
     THEN mi' = mi + 1 /\ UNCHANGED <<mpc, updateparameters>>
     ELSE mi' = 0 /\ mpc' = "end" /\ updateparameters' = FALSE
  /\ UNCHANGED <<blocksize, partitions, filters, parameters, delayscale, hqproc,
                 irdelays, tick>>

\* the next iteration of the second loop, or the return from Convolve
NextEnd == IF mi + 1 < Size(convolvers) THEN "end" ELSE "idle"

\* Convolver::EndConvolution: only wait if processing has been triggered
EndStep ==
  /\ mpc = "end"
  /\ IF EndGate(convolvers[mi])
     THEN /\ mpc' = "wait"
          /\ UNCHANGED <<mi, started>>
     ELSE /\ mpc' = NextEnd
          /\ mi' = IF NextEnd = "end" THEN mi + 1 ELSE 0
          /\ started' = IF NextEnd = "end" THEN started ELSE AllFalse
  /\ UNCHANGED <<mgrvars, convolvers, tick, zerorun>>

\* Convolver::EndConvolution: donesignal.Wait() returns and resets the signal
EndWait ==
  /\ mpc = "wait"
  /\ convolvers[mi].donesignal
  /\ convolvers' = [convolvers EXCEPT ![mi].donesignal = FALSE]
  /\ mpc' = "mix"
  /\ UNCHANGED <<mgrvars, mi, tick, started, zerorun>>

\* Convolver::EndConvolution: the loop that reads output[] and mixes it
Mix ==
  /\ mpc = "mix"
  /\ mpc' = NextEnd
  /\ mi' = IF NextEnd = "end" THEN mi + 1 ELSE 0
  /\ started' = IF NextEnd = "end" THEN started ELSE AllFalse
  /\ UNCHANGED <<mgrvars, convolvers, tick, zerorun>>

(***************************************************************************)
(* Convolver::Process, the thread of convolver c, one step at a time.      *)
(***************************************************************************)
\* while (!quitthread)
ProcLoop(c) ==
  /\ c \in DOMAIN convolvers
  /\ convolvers[c].pc = "top"
  /\ convolvers' = [convolvers EXCEPT
                      ![c].pc = IF convolvers[c].quitthread THEN "exited" ELSE "wait"]
  /\ UNCHANGED <<mgrvars, mpc, mi, tick, started, zerorun>>

\* startsignal.Wait() returns and resets the signal
ProcWake(c) ==
  /\ c \in DOMAIN convolvers
  /\ convolvers[c].pc = "wait"
  /\ convolvers[c].startsignal
  /\ convolvers' = [convolvers EXCEPT ![c].startsignal = FALSE, ![c].pc = "woken"]
  /\ UNCHANGED <<mgrvars, mpc, mi, tick, started, zerorun>>

\* if (quitthread) break
ProcQuit(c) ==
  /\ c \in DOMAIN convolvers
  /\ convolvers[c].pc = "woken"
  /\ convolvers' = [convolvers EXCEPT
                      ![c].pc = IF convolvers[c].quitthread THEN "exited" ELSE "proc"]
  /\ UNCHANGED <<mgrvars, mpc, mi, tick, started, zerorun>>

\* a thread that signals done before it has written output[]
ProcBeginSignalsDone(c) ==
  /\ c \in DOMAIN convolvers
  /\ convolvers[c].pc = "proc"
  /\ convolvers' = [convolvers EXCEPT ![c].output = Torn, ![c].pc = "out",
                                      ![c].donesignal = TRUE]
  /\ UNCHANGED <<mgrvars, mpc, mi, tick, started, zerorun>>

\* the convolution into the delay memory, then the first samples of output[]
ProcBegin(c) ==
  /\ c \in DOMAIN convolvers
  /\ convolvers[c].pc = "proc"
  /\ convolvers' = [convolvers EXCEPT ![c].output = Torn, ![c].pc = "out"]
  /\ UNCHANGED <<mgrvars, mpc, mi, tick, started, zerorun>>

\* the last sample of output[]: the block computed from input[]
ProcEnd(c) ==
  /\ c \in DOMAIN convolvers
  /\ convolvers[c].pc = "out"
  /\ convolvers' = [convolvers EXCEPT ![c].output = convolvers[c].input,
                                      ![c].pc = "signal"]
  /\ UNCHANGED <<mgrvars, mpc, mi, tick, started, zerorun>>

\* donesignal.Signal()
ProcSignal(c) ==
  /\ c \in DOMAIN convolvers
  /\ convolvers[c].pc = "signal"
  /\ convolvers' = [convolvers EXCEPT ![c].donesignal = TRUE, ![c].pc = "top"]
  /\ UNCHANGED <<mgrvars, mpc, mi, tick, started, zerorun>>

Process(c) ==
  /\ \/ ProcLoop(c)
     \/ ProcWake(c)
     \/ ProcQuit(c)
     \/ ProcBegin(c)
     \/ ProcEnd(c)
     \/ ProcSignal(c)
  /\ UNCHANGED <<dspvars, rtvars, callvars>>

(***************************************************************************)
(* The samples.  A block is a function on 0..blocksize-1.  Samples are     *)
(* integers; a convolved sample is held multiplied by blocksize and an     *)
(* output sample multiplied by blocksize * blocksize, so that the          *)
(* crossfade ramp and the level ramp (both in steps of 1 / blocksize) stay *)
(* exact.                                                                  *)
(***************************************************************************)
Zeros(n) == [i \in 0..(n - 1) |-> 0]

\* the loop of StartConvolution: nonzero |= (input[i] != 0.0)
NonZero(block) == \E i \in DOMAIN block : block[i] # 0

(***************************************************************************)
(* BlockConvolver (section 4.4 of the specification), in the time domain:  *)
(* overlap-save over P partitions is the linear convolution of the filter's*)
(* IR with the last P blocks given to filter_block followed by the block   *)
(* given now.  hist holds those last P blocks; filter and pending are the  *)
(* current and the crossfaded-to filter (indices in the manager's vector). *)
(***************************************************************************)
NewBlockConvolver(bs, P) ==
  [hist |-> Zeros(P * bs), filter |-> NULL, pending |-> NULL]

set_filter(bc, f) == [bc EXCEPT !.filter = f, !.pending = NULL]

crossfade_filter(bc, f) == [bc EXCEPT !.pending = f]

\* sum over the taps j..Len(ir) of ir[j] * x[at - (j - 1)]
RECURSIVE TapSum(_, _, _, _)
TapSum(ir, x, at, j) ==
  IF j > Len(ir) THEN 0
  ELSE (IF at - (j - 1) >= 0 THEN ir[j] * x[at - (j - 1)] ELSE 0)
       + TapSum(ir, x, at, j + 1)

\* sample n of the block a filter yields: zeros when no filter is set
FilterOut(flt, f, x, at) ==
  IF f = NULL THEN 0 ELSE TapSum(flt[f].ir, x, at, 1)

\* filter_block: the output block (times bs) and the BlockConvolver after it
filter_block(bc, flt, in, bs) ==
  LET H == Size(bc.hist)
      x == [k \in 0..(H + bs - 1) |-> IF k < H THEN bc.hist[k] ELSE in[k - H]]
      out == [n \in 0..(bs - 1) |->
                IF bc.pending # NULL
                THEN (bs - n) * FilterOut(flt, bc.filter, x, H + n)
                     + n * FilterOut(flt, bc.pending, x, H + n)
                ELSE bs * FilterOut(flt, bc.filter, x, H + n)]
  IN [out |-> out,
      bc |-> [hist |-> [k \in 0..(H - 1) |-> x[k + bs]],
              filter |-> IF bc.pending # NULL THEN bc.pending ELSE bc.filter,
              pending |-> NULL]]

(***************************************************************************)
(* FractionalSample.h (section 4.5 of the specification): the interpolator *)
(* of the high-quality path exposes (K - 1) / 2 for its kernel length K;   *)
(* here K = 3.  The model runs the low-quality path of Process only.       *)
(***************************************************************************)
FractionalSampleAdditionalDelayRequired == 1

(***************************************************************************)
(* Convolver::Process: the locals of the thread before its loop.           *)
(***************************************************************************)
\* a length that rounds maxdelay + blocksize - 1 up to whole blocks
DelayLenTwiceRounded(bs) == (1 + ((MaxAdditionalDelay + bs - 1 + bs - 1) \div bs)) * bs

DelayLen(bs) == (1 + ((MaxAdditionalDelay + bs - 1) \div bs)) * bs

NewProcess(bs, P) ==
  [delaypos |-> 0,
   delaylen |-> DelayLen(bs),
   delay |-> Zeros(DelayLen(bs)),
   level1 |-> 1,
   delay1 |-> 0,
   maxdelay |-> DelayLen(bs) - bs - 1 - FractionalSampleAdditionalDelayRequired,
   convolver |-> NewBlockConvolver(bs, P),
   current_filter |-> NULL]

\* the delay memory with a block written at delay + delaypos
WriteBlock(delay, delaypos, block) ==
  [k \in DOMAIN delay |->
     IF k - delaypos \in DOMAIN block THEN block[k - delaypos] ELSE delay[k]]

\* a Convolve that crossfades to every new filter, the first one too
ConvolveFadeOnly(w, p, flt) ==
  LET update == w.filter # NULL /\ w.filter # p.current_filter
      bc == IF update THEN crossfade_filter(p.convolver, w.filter) ELSE p.convolver
      r  == filter_block(bc, flt, w.input, w.blocksize)
  IN [p EXCEPT !.current_filter = IF update THEN w.filter ELSE @,
               !.convolver = r.bc,
               !.delay = WriteBlock(p.delay, p.delaypos, r.out)]

\* a Convolve that replaces the filter at once whenever it changes
ConvolveSetOnly(w, p, flt) ==
  LET update == w.filter # NULL /\ w.filter # p.current_filter
      bc == IF update THEN set_filter(p.convolver, w.filter) ELSE p.convolver
      r  == filter_block(bc, flt, w.input, w.blocksize)
  IN [p EXCEPT !.current_filter = IF update THEN w.filter ELSE @,
               !.convolver = r.bc,
               !.delay = WriteBlock(p.delay, p.delaypos, r.out)]

\* Convolver::Convolve(delay + delaypos)
Convolve(w, p, flt) ==
  LET update == w.filter # NULL /\ w.filter # p.current_filter
      bc == IF update
            THEN IF p.current_filter = NULL
                 THEN set_filter(p.convolver, w.filter)
                 ELSE crossfade_filter(p.convolver, w.filter)
            ELSE p.convolver
      r  == filter_block(bc, flt, w.input, w.blocksize)
  IN [p EXCEPT !.current_filter = IF update THEN w.filter ELSE @,
               !.convolver = r.bc,
               !.delay = WriteBlock(p.delay, p.delaypos, r.out)]

\* decide whether there's any need to perform convolution
NeedConvolve(w) == w.zeroblocks < w.partitions

(***************************************************************************)
(* One iteration of the loop of Convolver::Process after the wait, low-    *)
(* quality path: the locals after it and the block left in output[].       *)
(* With a = 1 - i / bs and b = i / bs, fpos = a * fpos1 + b * fpos2 is     *)
(* ((bs - i) * fpos1 + i * fpos2) / bs, and (uint_t)fpos its floor (delays *)
(* are whole and delay1, delay2 at most maxdelay < delaylen, so fpos1 and  *)
(* fpos2 are whole and positive).  Nothing bounds delay2 from below.       *)
(***************************************************************************)
\* delay2 = MIN(outputdelay, (double)maxdelay)
Delay2(w, p) == Min(w.outputdelay, p.maxdelay)

\* (uint_t)fpos for sample i, before the % delaylen
ReadPos(w, p, i) ==
  LET pos1  == p.delaypos + p.delaylen
      fpos1 == pos1 - p.delay1
      fpos2 == (pos1 + w.blocksize) - Delay2(w, p)
  IN ((w.blocksize - i) * fpos1 + i * fpos2) \div w.blocksize

\* an iteration that applies the new level and delay from its first sample on
ProcessBlockJump(w, p, flt, convolve) ==
  LET bs == w.blocksize
      p1 == IF convolve THEN Convolve(w, p, flt)
            ELSE [p EXCEPT !.delay = WriteBlock(p.delay, p.delaypos, Zeros(bs))]
      out == [i \in 0..(bs - 1) |->
                bs * w.outputlevel
                * p1.delay[((p.delaypos + p.delaylen + i) - Delay2(w, p)) % p.delaylen]]
  IN [proc |-> [p1 EXCEPT !.delaypos = (p.delaypos + bs) % p.delaylen,
                          !.delay1 = Delay2(w, p),
                          !.level1 = w.outputlevel],
      output |-> out]

\* an iteration that takes outputdelay as it is
ProcessBlockUnclamped(w, p, flt, convolve) ==
  LET bs == w.blocksize
      p1 == IF convolve THEN Convolve(w, p, flt)
            ELSE [p EXCEPT !.delay = WriteBlock(p.delay, p.delaypos, Zeros(bs))]
      q  == [p EXCEPT !.maxdelay = w.outputdelay]
      out == [i \in 0..(bs - 1) |->
                ((bs - i) * p.level1 + i * w.outputlevel)
                * p1.delay[ReadPos(w, q, i) % p.delaylen]]
  IN [proc |-> [p1 EXCEPT !.delaypos = (p.delaypos + bs) % p.delaylen,
                          !.delay1 = w.outputdelay,
                          !.level1 = w.outputlevel],
      output |-> out]

ProcessBlock(w, p, flt, convolve) ==
  LET bs     == w.blocksize
      p1     == IF convolve THEN Convolve(w, p, flt)
                ELSE [p EXCEPT !.delay = WriteBlock(p.delay, p.delaypos, Zeros(bs))]
      level2 == w.outputlevel
      out    == [i \in 0..(bs - 1) |->
                   ((bs - i) * p.level1 + i * level2)
                   * p1.delay[ReadPos(w, p, i) % p.delaylen]]
  IN [proc |-> [p1 EXCEPT !.delaypos = (p.delaypos + bs) % p.delaylen,
                          !.delay1 = Delay2(w, p),
                          !.level1 = level2],
      output |-> out]

(***************************************************************************)
(* DspSpec: one Convolver of a manager with one IR, the samples kept.  A   *)
(* tick is ConvolverManager::Convolve on that Convolver: StartConvolution  *)
(* (DspStart), the iteration of Process it releases (DspProcess), and      *)
(* EndConvolution (DspEnd), in the order the signals impose.  Before the   *)
(* first tick the caller may call SelectIR(0, 0, level, delay)             *)
(* (DspSelectIR).  dref runs the same iteration in every tick, gated or    *)
(* not, and always convolves: the output of a Convolver that drops         *)
(* nothing; it is followed until the two outputs first differ.  dfresh is  *)
(* the thread of a Convolver with the same fields created at the block     *)
(* that reopened a closed gate (new locals, a new BlockConvolver); it is   *)
(* followed until its output first differs.                                *)
(***************************************************************************)
NoImpulse == 0 - 1

\* the position of the 1 in a block that is zero elsewhere, else NoImpulse
ImpulseAt(block) ==
  IF \E m \in DOMAIN block : block = [i \in DOMAIN block |-> IF i = m THEN 1 ELSE 0]
  THEN CHOOSE m \in DOMAIN block : block = [i \in DOMAIN block |-> IF i = m THEN 1 ELSE 0]
  ELSE NoImpulse

\* the input blocks: silence, and a unit impulse at each position
Blocks == {b \in [0..(BlockSize - 1) -> {0, 1}] : b = Zeros(BlockSize) \/ ImpulseAt(b) # NoImpulse}

\* the IRs: of each length, the identity [1,0,...] and the box [1,1,...]
DspIRs ==
  {[k \in 1..L |-> IF k = 1 THEN 1 ELSE 0] : L \in 1..MaxIRLen}
    \cup {[k \in 1..L |-> 1] : L \in 1..MaxIRLen}

\* CreateIRs(ir, 1, Len(ir)); SetConvolverCount(1); EnableHQProcessing(false);
\* SelectIR(0, 0, 1, delay)
DspConfigured(ir, delay) ==
  LET P  == CalcPartitions(Len(ir), BlockSize)
      cs == UpdateConvolverParameters(
              0 :> NewConvolver(BlockSize, P, 0, FALSE),
              0 :> [irindex |-> 0, delay |-> delay, level |-> 1],
              Library(BlockSize, 0 :> ir), NoneYet, 1, FALSE, 0)
  IN /\ dfilters = Library(BlockSize, 0 :> ir)
     /\ dcv = cs[0]
     /\ dpr = NewProcess(BlockSize, P)
     /\ dmix = Zeros(BlockSize)
     /\ dpc = "idle"
     /\ dref = [proc |-> NewProcess(BlockSize, P), mix |-> Zeros(BlockSize)]
     /\ dscn = [age |-> 0, impulse |-> NoImpulse, diverged |-> FALSE]
     /\ dfresh = [on |-> FALSE, differs |-> FALSE, proc |-> NewProcess(BlockSize, P),
                  mix |-> Zeros(BlockSize)]

\* Convolver::StartConvolution on the samples of block
DspStartConvolution(block) ==
  /\ dpc = "idle"
  /\ dcv' = StartConvolution(dcv, block, NonZero(block))
  /\ dpc' = "start"
  /\ UNCHANGED <<thrvars, rtvars, callvars, dfilters, dpr, dmix>>

\* StartConvolution, and the histories
DspStart(block) ==
  /\ DspStartConvolution(block)
  /\ dscn' = [dscn EXCEPT !.impulse = IF dscn.age = 0 THEN ImpulseAt(block)
                                      ELSE IF NonZero(block) THEN NoImpulse
                                      ELSE @]
  /\ dfresh' = IF dcv.zeroblocks = dcv.maxzeroblocks /\ NonZero(block)
               THEN [on |-> TRUE, differs |-> FALSE,
                     proc |-> NewProcess(dcv.blocksize, dcv.partitions),
                     mix |-> Zeros(dcv.blocksize)]
               ELSE dfresh
  /\ UNCHANGED dref

\* Convolver::Process: from the return of startsignal.Wait() to donesignal.Signal()
DspProcess ==
  /\ dpc = "start"
  /\ dcv.startsignal
  /\ LET r == ProcessBlock(dcv, dpr, dfilters, NeedConvolve(dcv))
     IN /\ dpr' = r.proc
        /\ dcv' = [dcv EXCEPT !.startsignal = FALSE, !.output = r.output,
                              !.donesignal = TRUE]
  /\ UNCHANGED <<thrvars, rtvars, callvars, dfilters, dmix, dpc, dref, dscn, dfresh>>

\* Convolver::EndConvolution with level 1 on a zeroed output buffer
DspEndConvolution ==
  /\ dpc = "start"
  /\ EndGate(dcv) => dcv.donesignal
  /\ dmix' = IF EndGate(dcv) THEN dcv.output ELSE Zeros(dcv.blocksize)
  /\ dcv' = [dcv EXCEPT !.donesignal = FALSE]
  /\ dpc' = "idle"
  /\ UNCHANGED <<thrvars, rtvars, callvars, dfilters, dpr>>

\* EndConvolution, and the histories
DspEnd ==
  /\ DspEndConvolution
  /\ LET r == ProcessBlock(dcv, dref.proc, dfilters, TRUE)
     IN /\ dref' = IF dscn.diverged THEN dref
                   ELSE [proc |-> r.proc, mix |-> r.output]
        /\ dscn' = [dscn EXCEPT !.age = Min(@ + 1, MaxAge),
                                !.diverged = @ \/ dmix' # r.output]
  /\ dfresh' = IF dfresh.on /\ ~dfresh.differs
               THEN LET f == ProcessBlock(dcv, dfresh.proc, dfilters, NeedConvolve(dcv))
                        mix == IF EndGate(dcv) THEN f.output ELSE Zeros(dcv.blocksize)
                    IN [on |-> TRUE, differs |-> dmix' # mix,
                        proc |-> IF EndGate(dcv) THEN f.proc ELSE dfresh.proc,
                        mix |-> mix]
               ELSE dfresh

\* ConvolverManager::SelectIR(0, 0, level, delay) before the first tick
DspSelectIR(level, delay) ==
  /\ dpc = "idle"
  /\ dscn.age = 0
  /\ dcv' = SelectIRConvolvers(0 :> [irindex |-> 0, delay |-> dcv.outputdelay,
                                     level |-> dcv.outputlevel],
                               0 :> dcv, dfilters, NoneYet, 1, FALSE, 0, 0,
                               level, delay)[0]
  /\ UNCHANGED <<thrvars, rtvars, callvars, dfilters, dpr, dmix, dpc, dref, dscn,
                 dfresh>>

(***************************************************************************)
(* SelectSpec: the Convolver of DspSpec in a manager that holds two IRs of *)
(* one length, the identity and the box, and the IR delays given by        *)
(* SetIRDelays; the caller may call SelectIR(0, ir, level, delay) between  *)
(* any two ticks.  The IR delay of the second IR is negative.              *)
(***************************************************************************)
\* CreateIRs(irdata, 2, irlength): irdata holds [1,0,...] and [1,1,...]
SelectLibrary(irlength) ==
  Library(BlockSize, (0 :> [k \in 1..irlength |-> IF k = 1 THEN 1 ELSE 0])
                       @@ (1 :> [k \in 1..irlength |-> 1]))

\* SetIRDelays(delays, 2): no delay for the first IR, a dynamic delay of one
\* sample less for the second
SelectIRDelays ==
  (0 :> [dynamic |-> 0, static |-> 0]) @@ (1 :> [dynamic |-> 0 - 1, static |-> 0])

\* CreateIRs(irdata, 2, irlength); SetIRDelays(delays, 2); SetConvolverCount(1):
\* SelectIR(0, 0); EnableHQProcessing(false)
SelectConfigured(irlength) ==
  LET P  == CalcPartitions(irlength, BlockSize)
      cs == UpdateConvolverParameters(
              0 :> NewConvolver(BlockSize, P, 0, FALSE),
              0 :> [irindex |-> 0, delay |-> 0, level |-> 1],
              SelectLibrary(irlength), SelectIRDelays, 1, FALSE, 0)
  IN /\ dfilters = SelectLibrary(irlength)
     /\ dcv = cs[0]
     /\ dpr = NewProcess(BlockSize, P)
     /\ dmix = Zeros(BlockSize)
     /\ dpc = "idle"
     /\ dref = [proc |-> NewProcess(BlockSize, P), mix |-> Zeros(BlockSize)]
     /\ dscn = [age |-> 0, impulse |-> NoImpulse, diverged |-> FALSE]
     /\ dfresh = [on |-> FALSE, differs |-> FALSE, proc |-> NewProcess(BlockSize, P),
                  mix |-> Zeros(BlockSize)]

\* ConvolverManager::SelectIR(0, ir, level, delay) between two ticks
DspSelect(ir, level, delay) ==
  /\ dpc = "idle"
  /\ dcv' = SelectIRConvolvers(0 :> [irindex |-> dcv.filter, delay |-> 0,
                                     level |-> dcv.outputlevel],
                               0 :> dcv, dfilters, SelectIRDelays, 1, FALSE, 0, ir,
                               level, delay)[0]
  /\ UNCHANGED <<thrvars, rtvars, callvars, dfilters, dpr, dmix, dpc, dref, dscn,
                 dfresh>>

(***************************************************************************)
(* RouteSpec: ConvolverManager::Convolve(input, output, inputchannels,     *)
(* outputchannels) with the samples of the interleaved buffers kept.  A    *)
(* buffer is a function on 0..blocksize * channels - 1; sample n of        *)
(* channel c is at n * channels + c.  The call is followed an iteration at *)
(* a time; a Convolver's thread runs its iteration of Process between its  *)
(* StartConvolution and the return of the wait in its EndConvolution, and  *)
(* is placed at that return.  A read outside the input buffer yields any   *)
(* sample and is recorded in roob.  The convolvers start after any number  *)
(* of silent calls (so that their silence gates are in any state), and     *)
(* MaxCalls calls follow.  The manager's library is the one the convolvers *)
(* were created with, or it was emptied since (CreateIRs with no IRs, a    *)
(* LoadIRs whose file does not open); filter_block on a filter that was    *)
(* destroyed reads whatever its storage holds by then.                     *)
(***************************************************************************)
\* Convolve: input + i / outputchannels
InputOffsetModulo(i, outputchannels) == i % outputchannels

InputOffset(i, outputchannels) == i \div outputchannels

\* Convolve: output + (i % outputchannels)
OutputOffset(i, outputchannels) == i % outputchannels

\* StartConvolution: input[i] = _input[i * inputchannels], junk where _input ends
Deinterleave(buf, offset, inputchannels, bs, junk) ==
  [i \in 0..(bs - 1) |->
     IF offset + i * inputchannels \in DOMAIN buf
     THEN buf[offset + i * inputchannels] ELSE junk[i]]

InsideBuffer(buf, offset, channels, bs) ==
  \A i \in 0..(bs - 1) : offset + i * channels \in DOMAIN buf

\* ConvolverManager's audioscale: 1.0 from the constructor, and SetAudioScale is
\* compiled out (MEASURE_MAX_FILTER_LEVEL is 0)
audioscale == 1

\* an EndConvolution that stores its block instead of adding it
MixIntoOverwrite(buf, offset, outputchannels, block, level) ==
  [k \in DOMAIN buf |->
     IF \E i \in DOMAIN block : k = offset + i * outputchannels
     THEN block[(k - offset) \div outputchannels] * level
     ELSE buf[k]]

\* EndConvolution: _output[i * outputchannels] += output[i] * level
MixInto(buf, offset, outputchannels, block, level) ==
  [k \in DOMAIN buf |->
     IF \E i \in DOMAIN block : k = offset + i * outputchannels
     THEN buf[k] + block[(k - offset) \div outputchannels] * level
     ELSE buf[k]]

\* the buffers a caller may pass: silence, a 1 at any one place, and 1 everywhere
Buffers(channels) ==
  {b \in [0..(BlockSize * channels - 1) -> {0, 1}] :
     \/ b = Zeros(BlockSize * channels)
     \/ ImpulseAt(b) # NoImpulse
     \/ \A k \in DOMAIN b : b[k] = 1}

\* the IR library of RouteSpec: CreateIRs([1], 1, 1)
RouteFilters == Library(BlockSize, 0 :> <<1>>)

\* the libraries of a manager's life: the one its convolvers were created with
\* and the one it has during the calls (never loaded, loaded, loaded and emptied)
RouteLibraries ==
  {<<NoneYet, NoneYet>>, <<RouteFilters, RouteFilters>>, <<RouteFilters, NoneYet>>}

\* what the storage of a destroyed filter may hold: an IR of one tap, 0 or 1
StaleIRs == {<<0>>, <<1>>}

\* Convolver::Convolve hands filter_block a Filter * that filters no longer holds
Dangling(w, p, flt) ==
  \E f \in {w.filter, p.convolver.filter, p.convolver.pending} :
    f # NULL /\ f \notin DOMAIN flt

\* EndConvolution of Convolver w whose thread has locals p: the iteration of
\* Process that StartConvolution released, if any, and whether output[] is mixed
EndProcess(w, p, flt) ==
  IF EndGate(w)
  THEN LET r == ProcessBlock(w, p, flt, NeedConvolve(w))
       IN [conv |-> [w EXCEPT !.startsignal = FALSE, !.output = r.output],
           proc |-> r.proc, mixed |-> TRUE]
  ELSE [conv |-> w, proc |-> p, mixed |-> FALSE]

\* a Convolver and its thread's locals after k calls of Convolve with silence
RECURSIVE AfterSilence(_, _, _, _)
AfterSilence(w, p, k, flt) ==
  IF k = 0 THEN [conv |-> w, proc |-> p]
  ELSE LET e == EndProcess(StartConvolution(w, Zeros(w.blocksize), FALSE), p, flt)
       IN AfterSilence(e.conv, e.proc, k - 1, flt)

\* the library created (CreateIRs([1], 1, 1), or none: partitions stays 0);
\* SetConvolverCount(n); EnableHQProcessing(false); every Convolver on IR 0 with
\* level 1 and delay 0 if there is one; then k calls with silence; then the
\* library is now.
RouteConfigured(n, k, created, now) ==
  LET P     == IF Size(created) = 0 THEN 0 ELSE CalcPartitions(1, BlockSize)
      grown == GrowConvolvers(NoneYet, Resize(NoneYet, n, DefaultParameters), n,
                              [c \in 0..(MaxConvolvers - 1) |-> FALSE],
                              BlockSize, P, created, NoneYet, 1, FALSE)
      after == [c \in 0..(n - 1) |->
                  AfterSilence(grown.convolvers[c], NewProcess(BlockSize, P), k,
                               created)]
  IN /\ rconv = [c \in 0..(n - 1) |-> after[c].conv]
     /\ rproc = [c \in 0..(n - 1) |-> after[c].proc]
     /\ rcall = [input |-> Zeros(BlockSize), output |-> Zeros(BlockSize),
                 inputchannels |-> 1, outputchannels |-> 1, calls |-> 0,
                 silent |-> TRUE]
     /\ rpc = "idle"
     /\ ri = 0
     /\ roob = FALSE
     /\ rlib = now

\* the caller's call, on a cleared output buffer; with no convolvers neither
\* loop has an iteration.  silent: so far every call gave its convolvers zeros
\* only (an all-zero input that holds every block read from it)
RouteBegin(input, inputchannels, outputchannels) ==
  /\ rpc = "idle"
  /\ rcall.calls < MaxCalls
  /\ rcall' = [input |-> input, output |-> Zeros(BlockSize * outputchannels),
               inputchannels |-> inputchannels, outputchannels |-> outputchannels,
               calls |-> rcall.calls + 1,
               silent |-> /\ rcall.silent
                          /\ input = Zeros(BlockSize * inputchannels)
                          /\ \A i \in DOMAIN rconv :
                               InsideBuffer(input, InputOffset(i, outputchannels),
                                            inputchannels, BlockSize)]
  /\ rpc' = IF Size(rconv) = 0 THEN "idle" ELSE "start"
  /\ ri' = 0
  /\ roob' = FALSE
  /\ UNCHANGED <<thrvars, dspvars, callvars, rconv, rproc, rlib>>

\* one iteration of the first loop: convolvers[i]->StartConvolution(...)
RouteStart(junk) ==
  /\ rpc = "start"
  /\ LET offset == InputOffset(ri, rcall.outputchannels)
         inside == InsideBuffer(rcall.input, offset, rcall.inputchannels, BlockSize)
         block  == Deinterleave(rcall.input, offset, rcall.inputchannels,
                                BlockSize, junk)
     IN /\ inside => junk = Zeros(BlockSize)
        /\ rconv' = [rconv EXCEPT ![ri] = StartConvolution(@, block, NonZero(block))]
        /\ roob' = (roob \/ ~inside)
  /\ IF ri + 1 < Size(rconv)
     THEN ri' = ri + 1 /\ UNCHANGED rpc
     ELSE ri' = 0 /\ rpc' = "end"
  /\ UNCHANGED <<thrvars, dspvars, callvars, rproc, rcall, rlib>>

\* one iteration of the second loop: convolvers[i]->EndConvolution(..., audioscale),
\* and before its wait returns the iteration of Process; a destroyed filter is
\* read as stale
RouteEnd(stale) ==
  /\ rpc = "end"
  /\ LET dangling == /\ EndGate(rconv[ri])
                     /\ NeedConvolve(rconv[ri])
                     /\ Dangling(rconv[ri], rproc[ri], rlib)
         e == EndProcess(rconv[ri], rproc[ri],
                         IF dangling THEN Library(BlockSize, 0 :> stale) ELSE rlib)
     IN /\ ~dangling => stale = <<1>>
        /\ rproc' = [rproc EXCEPT ![ri] = e.proc]
        /\ rconv' = [rconv EXCEPT ![ri] = e.conv]
        /\ rcall' = IF e.mixed
                    THEN [rcall EXCEPT !.output =
                            MixInto(@, OutputOffset(ri, rcall.outputchannels),
                                    rcall.outputchannels, e.conv.output,
                                    audioscale)]
                    ELSE rcall
  /\ IF ri + 1 < Size(rconv)
     THEN ri' = ri + 1 /\ UNCHANGED rpc
     ELSE ri' = 0 /\ rpc' = "idle"
  /\ UNCHANGED <<thrvars, dspvars, callvars, roob, rlib>>

(***************************************************************************)
(* MgrSpec: the ConvolverManager as its caller sees it.  mgr holds the     *)
(* manager's fields; every operation below gives the manager after one     *)
(* call.  The context is modelled by the partition size it was built for.  *)
(* The Convolvers' threads are not followed here: a Convolve tick is taken *)
(* from its entry to its return.                                           *)
(***************************************************************************)
\* ConvolverManager::ConvolverManager(partitionsize)
NewManager(partitionsize) ==
  [blocksize |-> partitionsize, context |-> partitionsize, partitions |-> 0,
   filters |-> NoneYet, irdelays |-> NoneYet, parameters |-> NoneYet,
   convolvers |-> NoneYet,
   delayscale |-> 1, hqproc |-> TRUE, updateparameters |-> TRUE]

\* a SetPartitionSize that does not look at the convolvers
MgrSetPartitionSizeAlways(m, partitionsize) ==
  [m EXCEPT !.blocksize = partitionsize, !.context = partitionsize]

\* ConvolverManager::SetPartitionSize
MgrSetPartitionSize(m, partitionsize) ==
  IF Size(m.convolvers) = 0
  THEN [m EXCEPT !.blocksize = partitionsize, !.context = partitionsize]
  ELSE m

\* a CreateIRs that cuts or pads the delay table to the new library
MgrCreateIRsResizing(m, numirs, irlength) ==
  IF numirs # 0 /\ irlength # 0
  THEN [m EXCEPT !.partitions = CalcPartitions(irlength, m.blocksize),
                 !.filters = Library(m.blocksize, UnitIRs(numirs, irlength)),
                 !.irdelays = Resize(m.irdelays, numirs, [dynamic |-> 0, static |-> 0]),
                 !.updateparameters = TRUE]
  ELSE [m EXCEPT !.filters = NoneYet, !.irdelays = NoneYet]

\* ConvolverManager::CreateIRs with the default fade
MgrCreateIRs(m, numirs, irlength) ==
  IF numirs # 0 /\ irlength # 0
  THEN [m EXCEPT !.partitions = CalcPartitions(irlength, m.blocksize),
                 !.filters = Library(m.blocksize, UnitIRs(numirs, irlength)),
                 !.updateparameters = TRUE]
  ELSE [m EXCEPT !.filters = NoneYet]

\* a file name and the file behind it: name is FALSE for a null pointer, open is
\* whether SndfileHandle could open it, frames and channels what it holds
File(name, open, frames, channels) ==
  [name |-> name, open |-> open, frames |-> frames, channels |-> channels]

\* ConvolverManager::LoadIRsSndFile: true if the IRs were loaded
LoadIRsSndFileOk(file) ==
  file.name /\ file.open /\ file.frames # 0 /\ file.channels # 0

MgrLoadIRsSndFile(m, file) ==
  IF LoadIRsSndFileOk(file)
  THEN [m EXCEPT !.partitions = CalcPartitions(file.frames, m.blocksize),
                 !.filters = Library(m.blocksize, UnitIRs(file.channels, file.frames)),
                 !.updateparameters = TRUE]
  ELSE [m EXCEPT !.filters = NoneYet]

\* ConvolverManager::LoadIRs (ENABLE_SOFA is not set): a null file name is
\* reported and nothing else is done
MgrLoadIRs(m, file) == IF file.name THEN MgrLoadIRsSndFile(m, file) ELSE m

\* ConvolverManager::LoadIRDelays: the table is cleared, and read if the file
\* (name, open as for File; lines what it holds) can be opened.  A line is a
\* sequence of tokens separated by blanks, a token a number or some other word.
DelayFile(name, open, lines) == [name |-> name, open |-> open, lines |-> lines]

Num(v) == [numeric |-> TRUE, value |-> v]

Word == [numeric |-> FALSE, value |-> 0]

\* the stream fscanf reads: it skips line ends as it skips blanks
RECURSIVE Tokens(_)
Tokens(lines) == IF lines = <<>> THEN <<>> ELSE Head(lines) \o Tokens(Tail(lines))

\* while (fscanf(fp, "%lf %lf", &delaydynamic, &delaystatic) > 0) push_back:
\* fscanf gives 2 with two numbers next, 1 with one number and then a word or
\* the end of the file (delaystatic keeps the value it had), and 0 or EOF, which
\* ends the loop, with a word or the end of the file next
RECURSIVE ScanDelays(_, _, _)
ScanDelays(tokens, delaystatic, table) ==
  IF tokens = <<>> \/ ~Head(tokens).numeric THEN table
  ELSE LET rest == Tail(tokens)
           two  == rest # <<>> /\ Head(rest).numeric
           st   == IF two THEN Head(rest).value ELSE delaystatic
       IN ScanDelays(IF two THEN Tail(rest) ELSE rest, st,
                     table @@ (Size(table) :>
                       [dynamic |-> Head(tokens).value, static |-> st]))

MgrLoadIRDelays(m, file) ==
  IF file.name /\ file.open
  THEN [m EXCEPT !.irdelays = ScanDelays(Tokens(file.lines), 0, NoneYet),
                 !.updateparameters = TRUE]
  ELSE [m EXCEPT !.irdelays = NoneYet]

\* ConvolverManager::SetIRDelays: the table is replaced; the flag is not set
MgrSetIRDelays(m, delays) == [m EXCEPT !.irdelays = delays]

\* ConvolverManager::SetDelayScale
MgrSetDelayScale(m, scale) == [m EXCEPT !.delayscale = scale, !.updateparameters = TRUE]

\* a SetConvolverCount that deletes nothing
ShrinkNone(cs, n) == cs

\* the Convolvers below index n (the others deleted from the back)
Shrink(cs, n) == [c \in {i \in DOMAIN cs : i < n} |-> cs[c]]

\* ConvolverManager::SetConvolverCount; hqs is what the uninitialised hqproc of
\* each new Convolver holds
MgrSetConvolverCount(m, nconvolvers, hqs) ==
  LET grown == GrowConvolvers(m.convolvers,
                              Resize(m.parameters, nconvolvers, DefaultParameters),
                              nconvolvers, hqs, m.blocksize, m.partitions, m.filters,
                              m.irdelays, m.delayscale, m.hqproc)
  IN [m EXCEPT !.parameters = grown.parameters,
               !.convolvers = Shrink(grown.convolvers, nconvolvers)]

\* ConvolverManager::SelectIR
MgrSelectIR(m, convolver, ir, level, delay) ==
  [m EXCEPT !.parameters = SelectIRParams(m.parameters, m.convolvers, m.filters,
                                          convolver, ir, level, delay),
            !.convolvers = SelectIRConvolvers(m.parameters, m.convolvers, m.filters,
                                              m.irdelays, m.delayscale, m.hqproc,
                                              convolver, ir, level, delay)]

\* ConvolverManager::PrepareStaticConvolvers with the default fade
MgrPrepareStaticConvolvers(m, irlength) ==
  [m EXCEPT !.convolvers = NoneYet, !.parameters = NoneYet,
            !.partitions = CalcPartitions(irlength, m.blocksize)]

\* ConvolverManager::CreateStaticConvolver with an IR of irlength samples and a
\* delay (in samples): a filter, a parameter entry and a Convolver are appended
MgrCreateStaticConvolver(m, irlength, delay) ==
  LET f      == Size(m.filters)
      c      == Size(m.convolvers)
      params == [irindex |-> f, delay |-> delay, level |-> 1]
      conv   == SetParameters(NewConvolver(m.blocksize, m.partitions, delay, m.hqproc),
                              params.level, params.delay, m.hqproc)
  IN [m EXCEPT !.filters = @ @@ (f :> Filter(m.blocksize, [k \in 1..irlength |-> 1])),
               !.parameters = @ @@ (Size(m.parameters) :> params),
               !.convolvers = @ @@ (c :> conv)]

\* ConvolverManager::Convolve, first loop from iteration i on
RECURSIVE StartAll(_, _, _)
StartAll(m, i, nonzero) ==
  IF i >= Size(m.convolvers) THEN m
  ELSE LET cs1 == IF m.updateparameters
                  THEN UpdateConvolverParameters(m.convolvers, m.parameters, m.filters,
                                                 m.irdelays, m.delayscale, m.hqproc, i)
                  ELSE m.convolvers
           w   == StartConvolution(cs1[i], "in", nonzero[i])
       IN StartAll([m EXCEPT !.convolvers = [cs1 EXCEPT ![i] = w]], i + 1, nonzero)

\* Convolver::EndConvolution once its wait has returned: the thread has taken the
\* start signal, left its block in output[] and is back at the top of its loop
Ended(w) ==
  IF EndGate(w)
  THEN [w EXCEPT !.startsignal = FALSE, !.output = w.input, !.pc = "top"]
  ELSE w

\* ConvolverManager::Convolve; nonzero[i] is whether convolver i's block of the
\* input holds a non-zero sample
MgrConvolve(m, nonzero) ==
  LET m1 == [StartAll(m, 0, nonzero) EXCEPT !.updateparameters = FALSE]
  IN [m1 EXCEPT !.convolvers = [c \in DOMAIN m1.convolvers |-> Ended(m1.convolvers[c])]]

(***************************************************************************)
(* The caller's calls.  mcall records the call just made: its name, its    *)
(* arguments and whether it succeeded (for SelectIR what it returned, for  *)
(* the loads whether IRs were loaded, for SetPartitionSize whether no      *)
(* error was reported), and n counts the calls, up to MaxOps.              *)
(***************************************************************************)
Called(op, arg, ok, m) ==
  /\ mcall.n < MaxOps
  /\ mgr' = m
  /\ mcall' = [op |-> op, arg |-> arg, ok |-> ok, n |-> mcall.n + 1]
  /\ UNCHANGED <<thrvars, dspvars, rtvars>>

MgrConfigured(m) ==
  /\ mgr = m
  /\ mcall = [op |-> "ConvolverManager", arg |-> <<BlockSize>>, ok |-> TRUE, n |-> 0]

\* the arguments the caller chooses from
PartitionSizes == 1..BlockSize
Levels == 1..2
Delays == {0, MaxDelayArg}
Scales == 1..2
Files == {File(FALSE, FALSE, 0, 0), File(TRUE, FALSE, 0, 0),
          File(TRUE, TRUE, 0, 1), File(TRUE, TRUE, MaxIRLen, MaxIRs)}
DelayTables == {[i \in 0..(n - 1) |-> [dynamic |-> 1 + i, static |-> 2]] : n \in 0..MaxIRs}

\* the managers the constructors give: ConvolverManager(partitionsize), and
\* ConvolverManager(irfile, irdelayfile, partitionsize) with a file of MaxIRs IRs
\* and a file with a delay for each
Constructed ==
  {NewManager(BlockSize),
   MgrLoadIRDelays(MgrLoadIRs(NewManager(BlockSize), File(TRUE, TRUE, MaxIRLen, MaxIRs)),
                   DelayFile(TRUE, TRUE, [i \in 1..MaxIRs |-> <<Num(i), Num(2)>>]))}

CallSetPartitionSize(partitionsize) ==
  Called("SetPartitionSize", <<partitionsize>>, Size(mgr.convolvers) = 0,
         MgrSetPartitionSize(mgr, partitionsize))

CallCreateIRs(numirs, irlength) ==
  Called("CreateIRs", <<numirs, irlength>>, numirs # 0 /\ irlength # 0,
         MgrCreateIRs(mgr, numirs, irlength))

CallLoadIRs(file) ==
  Called("LoadIRs", <<file>>, LoadIRsSndFileOk(file), MgrLoadIRs(mgr, file))

\* the delay files: no name; one that does not open; one with a line "i 2" for
\* each IR i; the lines "1 2 3" and "4 5"; the lines "1 2 x" and "4 5"
DelayFiles ==
  {DelayFile(FALSE, FALSE, <<>>), DelayFile(TRUE, FALSE, <<>>),
   DelayFile(TRUE, TRUE, [i \in 1..MaxIRs |-> <<Num(i), Num(2)>>]),
   DelayFile(TRUE, TRUE, <<(<<Num(1), Num(2), Num(3)>>), (<<Num(4), Num(5)>>)>>),
   DelayFile(TRUE, TRUE, <<(<<Num(1), Num(2), Word>>), (<<Num(4), Num(5)>>)>>)}

CallLoadIRDelays(file) ==
  Called("LoadIRDelays", <<file>>, file.name /\ file.open, MgrLoadIRDelays(mgr, file))

CallSetIRDelays(delays) ==
  Called("SetIRDelays", <<delays>>, TRUE, MgrSetIRDelays(mgr, delays))

CallSetDelayScale(scale) ==
  Called("SetDelayScale", <<scale>>, TRUE, MgrSetDelayScale(mgr, scale))

CallSetConvolverCount(nconvolvers) ==
  \E hqs \in [0..(MaxConvolvers - 1) -> BOOLEAN] :
    Called("SetConvolverCount", <<nconvolvers>>, TRUE,
           MgrSetConvolverCount(mgr, nconvolvers, hqs))

CallSelectIR(convolver, ir, level, delay) ==
  Called("SelectIR", <<convolver, ir, level, delay>>,
         SelectIROk(mgr.convolvers, mgr.filters, convolver, ir),
         MgrSelectIR(mgr, convolver, ir, level, delay))

CallPrepareStaticConvolvers(irlength) ==
  Called("PrepareStaticConvolvers", <<irlength>>, TRUE,
         MgrPrepareStaticConvolvers(mgr, irlength))

\* (the model follows up to MaxConvolvers convolvers and MaxIRs filters)
CallCreateStaticConvolver(irlength, delay) ==
  /\ Size(mgr.convolvers) < MaxConvolvers
  /\ Size(mgr.filters) < MaxIRs
  /\ Called("CreateStaticConvolver", <<irlength, delay>>, TRUE,
            MgrCreateStaticConvolver(mgr, irlength, delay))

CallConvolve(nonzero) ==
  Called("Convolve", <<nonzero>>, TRUE, MgrConvolve(mgr, nonzero))

MgrInit ==
  /\ ThreadInit(1)
  /\ DspConfigured(<<1>>, 0)
  /\ RouteConfigured(1, 0, RouteFilters, RouteFilters)
  /\ \E m \in Constructed : MgrConfigured(m)

MgrNext ==
  \/ \E partitionsize \in PartitionSizes : CallSetPartitionSize(partitionsize)
  \/ \E numirs \in {0, MaxIRs}, irlength \in {0, MaxIRLen} : CallCreateIRs(numirs, irlength)
  \/ \E file \in Files : CallLoadIRs(file)
  \/ \E file \in DelayFiles : CallLoadIRDelays(file)
  \/ \E delays \in DelayTables : CallSetIRDelays(delays)
  \/ \E scale \in Scales : CallSetDelayScale(scale)
  \/ \E nconvolvers \in 0..MaxConvolvers : CallSetConvolverCount(nconvolvers)
  \/ \E convolver \in 0..MaxConvolvers, ir \in 0..MaxIRs, level \in Levels, delay \in Delays :
       CallSelectIR(convolver, ir, level, delay)
  \/ \E irlength \in 1..MaxIRLen : CallPrepareStaticConvolvers(irlength)
  \/ \E irlength \in 1..MaxIRLen, delay \in Delays : CallCreateStaticConvolver(irlength, delay)
  \/ \E nonzero \in [0..(MaxConvolvers - 1) -> BOOLEAN] : CallConvolve(nonzero)

MgrSpec == MgrInit /\ [][MgrNext]_vars

(***************************************************************************)
(* SizingSpec: the sizes the manager and a Convolver's thread work out.    *)
(* CreateIRs is followed with a FILTER_FADE, whose times are whole numbers *)
(* of 1 / FadeUnit seconds, at SampleRate samples a second, so that the    *)
(* floor and the ceil of CalcPartitions and CreateFades round.  uint_t is  *)
(* UIntBits wide.                                                          *)
(***************************************************************************)
MaxPartitionSize == 3     \* largest partition size given to the constructor
FadeUnit == 2             \* the fade times are counted in 1 / FadeUnit seconds
MaxFade == 3              \* longest fade time, in 1 / FadeUnit seconds
SampleRate == 3           \* the 48000 of CreateIRs, scaled to the IR lengths
UIntBits == 6             \* width of uint_t, scaled to the IR lengths (32 in the build)

Max(a, b) == IF a > b THEN a ELSE b

\* a value stored in a uint_t
UInt(x) == x % (2 ^ UIntBits)

\* floor(t * samplerate) and ceil(t * samplerate) for a time of t / FadeUnit seconds
Floor(t, samplerate) == (t * samplerate) \div FadeUnit
Ceil(t, samplerate) == (t * samplerate + FadeUnit - 1) \div FadeUnit

FILTER_FADE(fis, fil, fos, fol) ==
  [fade_in_start |-> fis, fade_in_length |-> fil,
   fade_out_start |-> fos, fade_out_length |-> fol]

defaultfade == FILTER_FADE(0, 0, 0, 0)

\* ConvolverManager::CalcPartitions: start, len and the returned partitions
CalcPartitionsFade(fade, samplerate, filterlen, bs) ==
  LET start == UInt(Floor(Max(fade.fade_in_start, 0), samplerate))
      rest  == UInt(filterlen - start)
      len   == IF fade.fade_out_start + fade.fade_out_length = 0
               THEN rest
               ELSE Min(UInt(Ceil(Max(fade.fade_out_start + fade.fade_out_length
                                      - fade.fade_in_start, 0), samplerate)),
                        rest)
  IN [start |-> start, len |-> len, partitions |-> UInt(len + bs - 1) \div bs]

\* ConvolverManager::CreateFades: the sizes of fadein and fadeout
CreateFades(fade, samplerate) ==
  [fadein  |-> UInt(Ceil(fade.fade_in_length, samplerate)),
   fadeout |-> UInt(Ceil(fade.fade_out_length, samplerate))]

\* ConvolverManager::ApplyFades: the indices of data it multiplies
ApplyFadesIndices(len, fadein, fadeout) ==
  (0..(fadein - 1)) \cup {UInt(len - 1 - i) : i \in 0..(fadeout - 1)}

\* ConvolverManager::ApplyFades on data of len samples: sample k as the source
\* sample and the entries of fadein and fadeout it was multiplied by (NULL: none)
ApplyFades(data, len, fadein, fadeout) ==
  [k \in DOMAIN data |->
     [x |-> data[k],
      fadein  |-> IF k - 1 < fadein THEN k - 1 ELSE NULL,
      fadeout |-> IF len - k < fadeout THEN len - k ELSE NULL]]

\* the locals of CreateIRs: the cut, the fades, the size of buffer and the
\* indices of buffer that ApplyFades multiplies
CreateIRsLocals(irlength, fade, bs) ==
  LET cut   == CalcPartitionsFade(fade, SampleRate, irlength, bs)
      fades == CreateFades(fade, SampleRate)
  IN [filterstart |-> cut.start, filterlen |-> cut.len, partitions |-> cut.partitions,
      fadein |-> fades.fadein, fadeout |-> fades.fadeout,
      buffer |-> cut.len,
      touched |-> ApplyFadesIndices(cut.len, fades.fadein, fades.fadeout)]

NoLocals ==
  [filterstart |-> 0, filterlen |-> 0, partitions |-> 0, fadein |-> 0, fadeout |-> 0,
   buffer |-> 0, touched |-> {}]

\* memcpy and ApplyFades stay inside irdata and buffer
InsideArrays(irlength, local) ==
  /\ local.filterstart + local.filterlen <= irlength
  /\ local.touched \subseteq 0..(local.buffer - 1)

\* ConvolverManager::CreateIRs with a fade.  The IRs are all ones; a sample that
\* memcpy reads past irdata is junk.
MgrCreateIRsFade(m, numirs, irlength, fade, junk) ==
  IF numirs # 0 /\ irlength # 0
  THEN LET local == CreateIRsLocals(irlength, fade, m.blocksize)
           data  == [k \in 1..local.filterlen |->
                       IF local.filterstart + k <= irlength THEN 1 ELSE junk]
           ir    == ApplyFades(data, local.filterlen, local.fadein, local.fadeout)
       IN [m EXCEPT !.partitions = local.partitions,
                    !.filters = Library(m.blocksize, [i \in 0..(numirs - 1) |-> ir]),
                    !.updateparameters = TRUE]
  ELSE [m EXCEPT !.filters = NoneYet]

\* the fades the caller chooses from
Fades ==
  {FILTER_FADE(fis, fil, fos, fol) :
     fis \in 0..MaxFade, fil \in 0..MaxFade, fos \in 0..MaxFade, fol \in 0..MaxFade}

SizingCalled(op, arg, ok, local, crashed, m) ==
  /\ mcall.n < MaxOps
  /\ ~mcall.crashed
  /\ mgr' = m
  /\ mcall' = [op |-> op, arg |-> arg, ok |-> ok, n |-> mcall.n + 1,
               local |-> local, crashed |-> crashed]

\* CreateIRs(irdata, numirs, irlength, fade), as the first call on the new
\* manager.  Where memcpy or ApplyFades leave
\* the arrays the behaviour is undefined: the call returns with junk in the
\* filters, or the process is ended (the manager is left as filters.clear()
\* left it, and no call follows).
SizingCreateIRs(numirs, irlength, fade) ==
  LET local == IF numirs # 0 /\ irlength # 0
               THEN CreateIRsLocals(irlength, fade, mgr.blocksize)
               ELSE NoLocals
  IN /\ mcall.op = "ConvolverManager"
     /\ \/ \E junk \in {0, 1} :
             /\ InsideArrays(irlength, local) => junk = 1
             /\ SizingCalled("CreateIRs", <<numirs, irlength, fade>>,
                             numirs # 0 /\ irlength # 0, local, FALSE,
                             MgrCreateIRsFade(mgr, numirs, irlength, fade, junk))
        \/ /\ ~InsideArrays(irlength, local)
           /\ SizingCalled("CreateIRs", <<numirs, irlength, fade>>, FALSE, local, TRUE,
                           [mgr EXCEPT !.filters = NoneYet])
     /\ UNCHANGED <<thrvars, dspvars, rtvars>>

\* SetConvolverCount(1) on a manager without convolvers: the Convolver is
\* created and its thread reaches the loop of Process
SizingSetConvolverCount(hq) ==
  LET m == MgrSetConvolverCount(mgr, 1, [i \in 0..(MaxConvolvers - 1) |-> hq])
  IN /\ Size(mgr.convolvers) = 0
     /\ mgr.partitions <= MaxIRLen
     /\ SizingCalled("SetConvolverCount", <<1>>, TRUE, mcall.local, FALSE, m)
     /\ dcv' = m.convolvers[0]
     /\ dpr' = NewProcess(m.blocksize, m.partitions)
     /\ UNCHANGED <<thrvars, rtvars, dfilters, dmix, dpc, dref, dscn, dfresh>>

SizingInit ==
  /\ ThreadInit(1)
  /\ DspConfigured(<<1>>, 0)
  /\ RouteConfigured(1, 0, RouteFilters, RouteFilters)
  /\ \E partitionsize \in 1..MaxPartitionSize :
       /\ mgr = NewManager(partitionsize)
       /\ mcall = [op |-> "ConvolverManager", arg |-> <<partitionsize>>, ok |-> TRUE,
                   n |-> 0, local |-> NoLocals, crashed |-> FALSE]

SizingNext ==
  \/ \E numirs \in {0, 1}, irlength \in 0..MaxIRLen, fade \in Fades :
       SizingCreateIRs(numirs, irlength, fade)
  \/ \E hq \in BOOLEAN : SizingSetConvolverCount(hq)

SizingSpec == SizingInit /\ [][SizingNext]_vars

(***************************************************************************)
(* The initial states.  Spec starts the threads of 1..MaxConvolvers        *)
(* convolvers; DspSpec starts the one Convolver with an IR of up to        *)
(* MaxIRLen samples.                                                       *)
(***************************************************************************)
Init ==
  /\ \E n \in 1..MaxConvolvers : ThreadInit(n)
  /\ DspConfigured(<<1>>, 0)
  /\ RouteConfigured(1, 0, RouteFilters, RouteFilters)
  /\ MgrConfigured(NewManager(BlockSize))

DspInit ==
  /\ ThreadInit(1)
  /\ \E ir \in DspIRs : DspConfigured(ir, 0)
  /\ RouteConfigured(1, 0, RouteFilters, RouteFilters)
  /\ MgrConfigured(NewManager(BlockSize))

\* the audio thread inside a call
AudioStep ==
  /\ \/ \E nonzero \in BOOLEAN : StartStep(nonzero)
     \/ EndStep
     \/ EndWait
     \/ Mix
  /\ UNCHANGED <<dspvars, rtvars, callvars>>

\* the audio thread between calls: the caller's next call
Call ==
  /\ \/ \E n \in {0, MaxIRs} : CreateIRs(n, BlockSize)
     \/ SetDelayScale(1)
     \/ \E c \in 0..MaxConvolvers, ir \in {0, MaxIRs} : SelectIR(c, ir, 1, 0)
     \/ BeginConvolve
  /\ UNCHANGED <<dspvars, rtvars, callvars>>

Next ==
  \/ Call
  \/ AudioStep
  \/ \E c \in 0..(MaxConvolvers - 1) : Process(c)

Spec == Init /\ [][Next]_vars

(***************************************************************************)
(* CallSpec: Spec with EnableHQProcessing among the caller's calls, so     *)
(* that the hq flags of the manager and of the convolvers vary too.        *)
(***************************************************************************)
HqCall ==
  /\ \E enable \in BOOLEAN : EnableHQProcessing(enable)
  /\ UNCHANGED <<dspvars, rtvars, callvars>>

CallNext == Next \/ HqCall

CallSpec == Init /\ [][CallNext]_vars

(***************************************************************************)
(* Fair scheduling: every Convolver thread that can take a step eventually *)
(* takes one, and so does the audio thread while it is inside a call.      *)
(***************************************************************************)
FairSpec ==
  /\ Spec
  /\ WF_vars(AudioStep)
  /\ \A c \in 0..(MaxConvolvers - 1) : WF_vars(Process(c))

(***************************************************************************)
(* StopSpec: the caller also resizes the pool and destroys the manager;    *)
(* the audio thread inside StopThread is scheduled fairly as well          *)
(* (pthread_join returns once the thread has exited).                      *)
(***************************************************************************)
StopCall ==
  /\ \/ \E nconvolvers \in 0..MaxConvolvers : SetConvolverCount(nconvolvers)
     \/ DestroyManager
  /\ UNCHANGED <<dspvars, rtvars, callvars>>

StopStep ==
  /\ \/ StopThreadStep
     \/ SignalQuitStep
     \/ JoinStep
  /\ UNCHANGED <<dspvars, rtvars, callvars>>

StopNext == Next \/ StopCall \/ StopStep

StopSpec ==
  /\ Init
  /\ [][StopNext]_vars
  /\ WF_vars(AudioStep)
  /\ WF_vars(StopStep)
  /\ \A c \in 0..(MaxConvolvers - 1) : WF_vars(Process(c))

(***************************************************************************)
(* DspSpec: the ticks of one Convolver with its samples.                   *)
(***************************************************************************)
DspNext ==
  \/ \E block \in Blocks : DspStart(block)
  \/ DspProcess
  \/ DspEnd
  \/ \E delay \in 0..MaxDelayArg : DspSelectIR(1, delay)

DspSpec == DspInit /\ [][DspNext]_vars

(***************************************************************************)
(* SelectSpec: the ticks of one Convolver and the calls of SelectIR        *)
(* between them.                                                           *)
(***************************************************************************)
SelectInit ==
  /\ ThreadInit(1)
  /\ \E irlength \in {BlockSize, MaxIRLen} : SelectConfigured(irlength)
  /\ RouteConfigured(1, 0, RouteFilters, RouteFilters)
  /\ MgrConfigured(NewManager(BlockSize))

\* the first MaxAge ticks are followed; dscn.age counts them
SelectStart(block) ==
  /\ dscn.age < MaxAge
  /\ DspStartConvolution(block)
  /\ UNCHANGED <<dref, dscn, dfresh>>

SelectEnd ==
  /\ DspEndConvolution
  /\ dscn' = [dscn EXCEPT !.age = @ + 1]
  /\ UNCHANGED <<dref, dfresh>>

\* the delays the caller asks for: none, and more than the delay memory holds
SelectDelays == {0, DelayLen(BlockSize)}

SelectNext ==
  \/ \E block \in Blocks : SelectStart(block)
  \/ DspProcess
  \/ SelectEnd
  \/ \E ir \in 0..1, level \in Levels, delay \in SelectDelays :
       DspSelect(ir, level, delay)

SelectSpec == SelectInit /\ [][SelectNext]_vars

(***************************************************************************)
(* RouteSpec: the calls of Convolve on 0..MaxConvolvers convolvers with    *)
(* any channel counts up to MaxChannels.                                   *)
(***************************************************************************)
RouteInit ==
  /\ ThreadInit(1)
  /\ DspConfigured(<<1>>, 0)
  /\ \E n \in 0..MaxConvolvers, libs \in RouteLibraries :
       \E k \in 0..MaxZeroBlocks(CalcPartitions(1, BlockSize), BlockSize) :
         RouteConfigured(n, k, libs[1], libs[2])
  /\ MgrConfigured(NewManager(BlockSize))

RouteNext ==
  \/ \E inputchannels \in 1..MaxChannels, outputchannels \in 1..MaxChannels :
       \E input \in Buffers(inputchannels) :
         RouteBegin(input, inputchannels, outputchannels)
  \/ \E junk \in [0..(BlockSize - 1) -> {0, 1}] : RouteStart(junk)
  \/ \E stale \in StaleIRs : RouteEnd(stale)

RouteSpec == RouteInit /\ [][RouteNext]_vars

(***************************************************************************)
(* The claims about the threads.                                           *)
(***************************************************************************)
\* between waking on startsignal and signalling donesignal
Busy(w) == w.pc \in {"woken", "proc", "out", "signal"}

\* the fields of a Convolver that the audio thread writes
ManagerOwned(w) ==
  <<w.input, w.filter, w.outputlevel, w.outputdelay, w.hqproc, w.zeroblocks>>

InTick == mpc \in {"start", "end", "wait", "mix"}

C2_ReadAfterDone ==
  mpc = "mix" =>
    /\ ~Busy(convolvers[mi])
    /\ convolvers[mi].input = tick
    /\ convolvers[mi].output = tick

\* the audio thread mixes the second convolver's block while the first convolver's
\* thread, already read, waits for the next tick
C2_Witness ==
  /\ mpc = "mix"
  /\ mi = 1
  /\ convolvers[1].output = tick
  /\ convolvers[0].output = tick
  /\ convolvers[0].pc = "wait"

\* C3: EndConvolution goes to wait on donesignal exactly when StartConvolution
\* signalled startsignal for that convolver in this tick, which is exactly when
\* zeroblocks < maxzeroblocks after the tick's count.
AudioMoved == mpc' # mpc \/ mi' # mi

C3_WaitIffStarted ==
  [][/\ (mpc = "start" /\ AudioMoved) =>
          (started'[mi] <=> convolvers'[mi].zeroblocks < convolvers'[mi].maxzeroblocks)
     /\ (mpc = "end" /\ AudioMoved) => (mpc' = "wait" <=> started[mi])]_vars

\* in one tick a gated convolver was passed over and a started one is waited on
C3_Witness ==
  /\ mpc = "wait"
  /\ mi = 1
  /\ ~started[0]
  /\ started[1]

\* C4: a step that changes a field the audio thread writes in a Convolver is
\* taken only while that Convolver's thread is not between waking and
\* signalling done; a step of a Convolver thread changes neither those fields
\* nor anything of the manager.
C4_NoWriteWhileProcessing ==
  [][/\ \A c \in DOMAIN convolvers \cap DOMAIN convolvers' :
          ManagerOwned(convolvers'[c]) # ManagerOwned(convolvers[c])
            => ~Busy(convolvers[c])
     /\ (\E c \in DOMAIN convolvers : Process(c))
          => /\ UNCHANGED mgrvars
             /\ \A c \in DOMAIN convolvers :
                  ManagerOwned(convolvers'[c]) = ManagerOwned(convolvers[c])]_vars

\* the audio thread is about to write the second convolver while the first
\* convolver's thread is processing
C4_Witness ==
  /\ mpc = "start"
  /\ mi = 1
  /\ Busy(convolvers[0])

\* C5: a convolver that has received maxzeroblocks all-zero blocks in a row, this
\* tick's included, is not started (no startsignal is pending, its thread stays
\* in its wait) and is not waited on or mixed.
AfterStart(c) == (mpc = "start" /\ c < mi) \/ mpc \in {"end", "wait", "mix", "idle"}

C5_SilenceGate ==
  \A c \in DOMAIN convolvers :
    (AfterStart(c) /\ zerorun[c] >= convolvers[c].maxzeroblocks) =>
      /\ ~started[c]
      /\ ~convolvers[c].startsignal
      /\ ~Busy(convolvers[c])
      /\ ~(mpc \in {"wait", "mix"} /\ mi = c)

\* the second convolver is gated in a tick in which the first one is running
C5_Witness ==
  /\ Size(convolvers) = MaxConvolvers
  /\ mpc = "end"
  /\ mi = 1
  /\ zerorun[1] >= convolvers[1].maxzeroblocks
  /\ started[0]

(***************************************************************************)
(* The claims about one Convolver and its samples.                         *)
(***************************************************************************)
\* C6: in every state 0 <= zeroblocks <= maxzeroblocks; a StartConvolution with
\* an all-zero block does not decrease zeroblocks (it adds one, saturating at
\* maxzeroblocks), and a StartConvolution with any non-zero sample sets it to 0.
ZeroBlocksInRange(w) == 0 <= w.zeroblocks /\ w.zeroblocks <= w.maxzeroblocks

C6_ZeroBlocksCount ==
  [][/\ ZeroBlocksInRange(dcv)
     /\ ZeroBlocksInRange(dcv')
     /\ (dpc = "idle" /\ dpc' = "start") =>
          IF NonZero(dcv'.input)
          THEN dcv'.zeroblocks = 0
          ELSE /\ dcv'.zeroblocks >= dcv.zeroblocks
               /\ dcv'.zeroblocks = Min(dcv.zeroblocks + 1, dcv.maxzeroblocks)]_vars

\* a silent block arrives at a counter that is already saturated
C6_Witness ==
  /\ dpc = "start"
  /\ dcv.zeroblocks = dcv.maxzeroblocks
  /\ ~NonZero(dcv.input)
  /\ dscn.age > dcv.maxzeroblocks

\* the gate has closed in the tick just ended
GateClosed ==
  /\ dpc = "idle"
  /\ dscn.age >= 1
  /\ dcv.zeroblocks = dcv.maxzeroblocks

\* C7: when the gate closes, the complete response to the earlier input has been
\* emitted (the output so far is that of a Convolver that drops nothing), and a
\* skipped tick would have put out exactly zero: both what the complete response
\* holds for it and what the Convolver's own delay memory holds for it.
C7_TailFlushed ==
  GateClosed =>
    /\ ~dscn.diverged
    /\ dref.mix = Zeros(BlockSize)
    /\ ProcessBlock(dcv, dpr, dfilters, NeedConvolve(dcv)).output = Zeros(BlockSize)

\* block t of the response to a unit impulse at sample m of block 0 (as output
\* samples are held: times bs * bs)
ImpulseResponse(ir, m, t, bs) ==
  [i \in 0..(bs - 1) |->
     LET k == t * bs + i - m
     IN IF k >= 0 /\ k < Len(ir) THEN bs * bs * ir[k + 1] ELSE 0]

\* the input so far is a unit impulse in the first block and then silence, and
\* age - 1 < MaxAge - 1 is the tick just ended
AfterImpulse ==
  /\ dpc = "idle"
  /\ dscn.impulse # NoImpulse
  /\ dscn.age >= 1
  /\ dscn.age < MaxAge
  /\ dcv.outputlevel = 1
  /\ ~dcv.hqproc

\* C8: with gain 1, delay 0 and hq off, a unit impulse at any position followed
\* by silence is answered by the IR's samples from that position on and zero
\* elsewhere: every block put out is that block of the response.
C8_ImpulseRoundTrip ==
  (AfterImpulse /\ dcv.outputdelay = 0) =>
    dmix = ImpulseResponse(dfilters[0].ir, dscn.impulse, dscn.age - 1, BlockSize)

IsIdentity(ir) == \A k \in 1..Len(ir) : ir[k] = (IF k = 1 THEN 1 ELSE 0)

\* C9: with the identity IR, gain 1, hq off and a whole delay d within the clamp
\* selected before the first tick, a unit impulse at sample 0 of the first tick
\* followed by silence comes out as the value 1 at sample d and zero elsewhere.
C9_IntegerDelay ==
  (/\ AfterImpulse
   /\ dscn.impulse = 0
   /\ IsIdentity(dfilters[0].ir)
   /\ dcv.outputdelay <= dpr.maxdelay) =>
    dmix = [i \in 0..(BlockSize - 1) |->
              IF (dscn.age - 1) * BlockSize + i = dcv.outputdelay
              THEN BlockSize * BlockSize ELSE 0]

(***************************************************************************)
(* The claim about the update flag (CallSpec).                             *)
(***************************************************************************)
\* the targets of convolver c as the manager's tables give them
TargetsOf(c) ==
  LET ir == parameters[c].irindex
  IN [filter |-> ir,
      outputlevel |-> parameters[c].level,
      outputdelay |-> (IF ir \in DOMAIN irdelays
                       THEN irdelays[ir].static + irdelays[ir].dynamic * delayscale
                       ELSE 0) + parameters[c].delay,
      hqproc |-> hqproc]

\* the targets convolver w holds
Targets(w) ==
  [filter |-> w.filter, outputlevel |-> w.outputlevel,
   outputdelay |-> w.outputdelay, hqproc |-> w.hqproc]

\* C23: a call that changes the delay scale, the hq flag or loads a library
\* leaves updateparameters set; in a tick that starts with updateparameters
\* set, every convolver holds the filter, level, delay and hq flag of the
\* manager's tables when it is started; in a tick that starts with it clear no
\* convolver's targets change; and when the tick returns updateparameters is
\* false.
C23_AppliedAtNextTick ==
  [][/\ (\/ hqproc' # hqproc
         \/ delayscale' # delayscale
         \/ (filters' # filters /\ Size(filters') > 0)) => updateparameters'
     /\ (mpc = "start" /\ AudioMoved /\ updateparameters) =>
          Targets(convolvers'[mi]) = TargetsOf(mi)
     /\ (mpc = "start" /\ AudioMoved /\ ~updateparameters) =>
          Targets(convolvers'[mi]) = Targets(convolvers[mi])
     /\ (InTick /\ mpc' = "idle") => ~updateparameters']_vars

(***************************************************************************)
(* The claim about stopping a Convolver (StopSpec).                        *)
(***************************************************************************)
InStop == mpc \in {"stop", "stopsignal", "join"}

\* the Convolver that StopThread is stopping
Victim == Size(convolvers) - 1

\* C21: destroying a Convolver between ticks (SetConvolverCount shrinking, the
\* manager's destructor) terminates: StopThread signals startsignal only after
\* quitthread is set; from the entry of StopThread on, the thread neither
\* convolves nor writes output[] nor signals done, and once woken it sees
\* quitthread and exits; and under fair scheduling the join returns, so that the
\* audio thread is back between calls or the manager is gone.
C21_StopTerminates ==
  /\ [][/\ (mpc = "stopsignal" /\ mpc' = "join") => convolvers[Victim].quitthread
        /\ (InStop /\ Victim \in DOMAIN convolvers') =>
             /\ convolvers'[Victim].pc \notin {"proc", "out", "signal"}
             /\ convolvers'[Victim].output = convolvers[Victim].output
             /\ convolvers'[Victim].donesignal = convolvers[Victim].donesignal
        /\ (InStop /\ convolvers[Victim].pc = "woken"
                  /\ convolvers'[Victim].pc # "woken") =>
             convolvers'[Victim].pc = "exited"]_vars
  /\ InStop ~> (mpc \in {"idle", "gone"})

\* the join of a thread that was woken from its wait by StopThread and exited,
\* after a tick in which it convolved
C21_Witness ==
  /\ mpc = "join"
  /\ convolvers[Victim].pc = "exited"
  /\ ~convolvers[Victim].startsignal
  /\ convolvers[Victim].output \in {"even", "odd"}

\* the Convolver has two partitions and no delay, and its input was an impulse
\* in the first block and silence since
TwoPartitions ==
  /\ dcv.partitions = 2
  /\ dcv.outputdelay = 0
  /\ dscn.impulse # NoImpulse

\* C33 as stated: with two partitions and no delay, zeroblocks stops at
\* partitions + 1 = 3, and StartConvolution signals nothing from the third
\* silent block in a row on.
C33_GateAtThree ==
  TwoPartitions =>
    /\ dcv.zeroblocks <= dcv.partitions + 1
    /\ (dpc = "start" /\ dcv.zeroblocks >= dcv.partitions + 1) =>
         ~dcv.startsignal /\ ~dcv.donesignal

\* C33: with two partitions and no delay, zeroblocks stops at maxzeroblocks,
\* which allows for the largest additional delay whatever the Convolver's own
\* delay is and so lies above partitions + 1; a silent block before the
\* maxzeroblocks-th in a row still signals startsignal, and from that one on
\* StartConvolution signals nothing.
C33_GateAtMaxZeroBlocks ==
  [][(TwoPartitions' /\ dpc = "idle" /\ dpc' = "start" /\ ~NonZero(dcv'.input)) =>
       /\ dcv'.maxzeroblocks > dcv'.partitions + 1
       /\ IF dcv.zeroblocks + 1 < dcv.maxzeroblocks
          THEN dcv'.zeroblocks = dcv.zeroblocks + 1 /\ dcv'.startsignal
          ELSE dcv'.zeroblocks = dcv.maxzeroblocks /\ ~dcv'.startsignal]_vars

\* after the impulse, the third silent block has started the thread
C33_Witness ==
  /\ TwoPartitions
  /\ dpc = "start"
  /\ dcv.zeroblocks = dcv.partitions + 1
  /\ dcv.zeroblocks < dcv.maxzeroblocks
  /\ dcv.startsignal

\* C26: after a gate that closed on silence is reopened by a non-zero block, the
\* Convolver (here with level 1 and delay 0 throughout) puts out, from that
\* block on, what a Convolver created at that block with the same filter, level
\* and delay puts out: nothing from before the gap is left in it.
C26_NoResidue ==
  (/\ dfresh.on
   /\ dpc = "idle"
   /\ dcv.outputlevel = 1
   /\ dcv.outputdelay = 0) => dmix = dfresh.mix

(***************************************************************************)
(* The claims about the filter swap, the ramps and the delay memory        *)
(* (SelectSpec).                                                           *)
(***************************************************************************)
\* the step of the Convolver's thread: one iteration of Process
ProcessStep == dcv.startsignal /\ ~dcv'.startsignal

\* the input history of the BlockConvolver followed by the block given now
InputHistory ==
  LET H == Size(dpr.convolver.hist)
  IN [k \in 0..(H + BlockSize - 1) |->
        IF k < H THEN dpr.convolver.hist[k] ELSE dcv.input[k - H]]

\* sample n of what filter f alone yields from that history
Alone(f, n) ==
  TapSum(dfilters[f].ir, InputHistory, Size(dpr.convolver.hist) + n, 1)

\* sample n of the block the iteration wrote at delay + delaypos
Convolved(n) == dpr'.delay[dpr.delaypos + n]

\* C22: in an iteration that convolves while the Convolver has a current filter,
\* if SelectIR has changed the filter since the last convolved block, the
\* convolved block is (1 - n/B) y_old[n] + (n/B) y_new[n] with y_old, y_new what
\* the old and the new filter alone yield from the same input history, and the
\* new filter is the current one afterwards; with no change pending the block is
\* what the current filter alone yields.  (Convolved samples are held times B.)
C22_CrossfadeLaw ==
  [][(ProcessStep /\ NeedConvolve(dcv) /\ dpr.current_filter # NULL) =>
       /\ dpr'.current_filter = dcv.filter
       /\ \A n \in 0..(BlockSize - 1) :
            Convolved(n) =
              IF dcv.filter # dpr.current_filter
              THEN (BlockSize - n) * Alone(dpr.current_filter, n)
                   + n * Alone(dcv.filter, n)
              ELSE BlockSize * Alone(dcv.filter, n)]_vars

\* the block written last
LastBlock(n) == dpr.delay[((dpr.delaypos + dpr.delaylen - BlockSize) % dpr.delaylen) + n]

\* an iteration has just written a block holding a sample that is no multiple
\* of B: a proper blend of two different filter outputs
C22_Witness ==
  /\ dpc = "start"
  /\ dcv.donesignal
  /\ dpr.current_filter = dcv.filter
  /\ \E n \in 0..(BlockSize - 1) : LastBlock(n) % BlockSize # 0

\* C25: an iteration that convolves takes the Convolver's filter: the first one
\* at once (set_filter: the block is that filter's alone), a later one that
\* differs from the current one by a crossfade (crossfade_filter: the block is
\* the blend), and the one already in use by neither (the block is its alone);
\* afterwards it is the current filter and nothing is pending.  An iteration
\* that does not convolve because zeroblocks >= partitions leaves the current
\* filter and the BlockConvolver alone, and so does every step in which the
\* thread is not run (a gated tick, a SelectIR): the swap waits for the next
\* convolved block.
C25_SwapDispatch ==
  [][/\ (ProcessStep /\ NeedConvolve(dcv)) =>
          /\ dpr'.current_filter = dcv.filter
          /\ dpr'.convolver.filter = dcv.filter
          /\ dpr'.convolver.pending = NULL
          /\ \A n \in 0..(BlockSize - 1) :
               Convolved(n) =
                 IF dpr.current_filter = NULL \/ dcv.filter = dpr.current_filter
                 THEN BlockSize * Alone(dcv.filter, n)
                 ELSE (BlockSize - n) * Alone(dpr.current_filter, n)
                      + n * Alone(dcv.filter, n)
     /\ (ProcessStep /\ ~NeedConvolve(dcv)) =>
          /\ dpr'.current_filter = dpr.current_filter
          /\ dpr'.convolver = dpr.convolver
     /\ ~ProcessStep => dpr' = dpr]_vars

\* an iteration that did not convolve has run while a swap from the current
\* filter to another was waiting
C25_Witness ==
  /\ dpc = "start"
  /\ dcv.donesignal
  /\ ~NeedConvolve(dcv)
  /\ dpr.current_filter # NULL
  /\ dcv.filter # dpr.current_filter

\* C28: every iteration of Process puts out, for sample n, the gain
\* ((B - n) level1 + n outputlevel) / B times the delay memory's sample at the
\* same blend of the positions pos1 - delay1 and pos1 + B - delay2 (delay2 the
\* clamped outputdelay), and leaves level1 = outputlevel, delay1 = delay2 and
\* delaypos = (delaypos + B) mod D; no other step changes the three.  Hence a
\* ramp starts where the iteration before it ended, and an iteration that finds
\* level and delay already at their targets applies them unchanged to the
\* whole block: a change is spread over one iteration.  (output[] is held
\* times B * B: B for the convolved samples, B for the gain.)
RampStart == (dpr.delaypos + dpr.delaylen) - dpr.delay1

RampEnd == (dpr.delaypos + dpr.delaylen + BlockSize) - Min(dcv.outputdelay, dpr.maxdelay)

C28_ClickFreeRamp ==
  [][/\ ProcessStep =>
          /\ \A n \in 0..(BlockSize - 1) :
               dcv'.output[n] =
                 ((BlockSize - n) * dpr.level1 + n * dcv.outputlevel)
                 * dpr'.delay[(((BlockSize - n) * RampStart + n * RampEnd)
                                 \div BlockSize) % dpr.delaylen]
          /\ dpr'.level1 = dcv.outputlevel
          /\ dpr'.delay1 = Min(dcv.outputdelay, dpr.maxdelay)
          /\ dpr'.delaypos = (dpr.delaypos + BlockSize) % dpr.delaylen
          /\ RampStart' % dpr.delaylen = RampEnd % dpr.delaylen
          /\ (dpr.level1 = dcv.outputlevel /\ RampStart + BlockSize = RampEnd) =>
               \A n \in 0..(BlockSize - 1) :
                 dcv'.output[n] =
                   BlockSize * dcv.outputlevel * dpr'.delay[(RampStart + n) % dpr.delaylen]
     /\ ~ProcessStep =>
          /\ dpr'.level1 = dpr.level1
          /\ dpr'.delay1 = dpr.delay1
          /\ dpr'.delaypos = dpr.delaypos]_vars

\* the first iteration has run towards level 2 and a delay beyond the clamp and
\* put out a sample in mid-ramp
C28_Witness ==
  /\ dpc = "start"
  /\ dcv.donesignal
  /\ dscn.age = 0
  /\ dcv.outputlevel = 2
  /\ dpr.level1 = 2
  /\ dcv.outputdelay > dpr.maxdelay
  /\ dpr.delay1 = dpr.maxdelay
  /\ \E n \in 1..(BlockSize - 1) : dcv.output[n] # 0

\* C29: the delay the thread ends an iteration's ramp on, and starts the next
\* one from, is at most D - B - 1 - FractionalSampleAdditionalDelayRequired,
\* whatever delay was asked for.
C29_DelayClamp ==
  dpr.delay1 <= DelayLen(BlockSize) - BlockSize - 1
                  - FractionalSampleAdditionalDelayRequired

\* an iteration has run with an outputdelay longer than the whole delay memory
C29_Witness ==
  /\ dpc = "start"
  /\ dcv.donesignal
  /\ dcv.outputdelay >= DelayLen(BlockSize)
  /\ dpr.delay1 = DelayLen(BlockSize) - BlockSize - 1
                    - FractionalSampleAdditionalDelayRequired

\* C30: in every iteration of Process and for every sample n, the position read
\* in the delay memory, counted from the start of the block just written, is
\* more than -(D - B), less than B and at most n: a sample of this block up to
\* sample n or of an earlier block not yet overwritten; for every outputdelay
\* the manager hands over, a negative one too.
ReadOffset(n) == ReadPos(dcv, dpr, n) - (dpr.delaypos + dpr.delaylen)

C30_ReadsInsideValidData ==
  [][ProcessStep =>
       \A n \in 0..(BlockSize - 1) :
         /\ ReadOffset(n) > 0 - (dpr.delaylen - BlockSize)
         /\ ReadOffset(n) < BlockSize
         /\ ReadOffset(n) <= n]_vars

(***************************************************************************)
(* The claims about the routing of Convolve.                               *)
(***************************************************************************)
\* the caller's guarantee: inputchannels >= ceil(N / outputchannels)
RouteGuarantee ==
  rcall.inputchannels >= (Size(rconv) + rcall.outputchannels - 1) \div rcall.outputchannels

\* StartConvolution, EndConvolution of convolver i have run in the call under way
RouteStarted(i) == rcall.calls >= 1 /\ ((rpc = "start" /\ i < ri) \/ rpc \in {"end", "idle"})

RouteEnded(i) == rcall.calls >= 1 /\ ((rpc = "end" /\ i < ri) \/ rpc = "idle")

\* sample n of input channel c, of output channel c
InputSample(n, c) == rcall.input[n * rcall.inputchannels + c]

OutputSample(n, c) == rcall.output[n * rcall.outputchannels + c]

\* the sum of sample n of the blocks that the convolvers below i whose
\* EndConvolution has mixed have for output channel c
RECURSIVE MixedSum(_, _, _)
MixedSum(i, n, c) ==
  IF i = 0 THEN 0
  ELSE MixedSum(i - 1, n, c)
       + (IF /\ RouteEnded(i - 1)
             /\ (i - 1) % rcall.outputchannels = c
             /\ rconv[i - 1].zeroblocks < rconv[i - 1].maxzeroblocks
          THEN rconv[i - 1].output[n] * audioscale ELSE 0)

\* C10: given inputchannels >= ceil(N / outputchannels), no access leaves the
\* buffers; every convolver i that has been started holds the blocksize samples
\* of input channel floor(i / outputchannels), an existing channel; and every
\* output channel c holds the sum of the blocks of the convolvers i with
\* i mod outputchannels = c that have been mixed.
C10_Routing ==
  RouteGuarantee =>
    /\ ~roob
    /\ \A i \in DOMAIN rconv : RouteStarted(i) =>
         /\ i \div rcall.outputchannels < rcall.inputchannels
         /\ rconv[i].input =
              [n \in 0..(BlockSize - 1) |-> InputSample(n, i \div rcall.outputchannels)]
    /\ rcall.calls >= 1 =>
         \A c \in 0..(rcall.outputchannels - 1), n \in 0..(BlockSize - 1) :
           OutputSample(n, c) = MixedSum(Size(rconv), n, c)

\* C11: every EndConvolution of a call adds to each sample of its output channel
\* its block's sample times audioscale if the convolver was started in this tick,
\* adds nothing if it is gated, and leaves every other sample as it was; so after
\* a call on a cleared buffer each output sample is the sum of the blocks of the
\* started convolvers of its channel, times audioscale.
RECURSIVE StartedSum(_, _, _)
StartedSum(i, n, c) ==
  IF i = 0 THEN 0
  ELSE StartedSum(i - 1, n, c)
       + (IF (i - 1) % rcall.outputchannels = c /\ StartGate(rconv[i - 1])
          THEN rconv[i - 1].output[n] * audioscale ELSE 0)

C11_FanInAdditive ==
  [][rpc = "end" =>
       /\ \A k \in DOMAIN rcall.output :
            rcall'.output[k] = rcall.output[k]
              + (IF k % rcall.outputchannels = ri % rcall.outputchannels
                    /\ StartGate(rconv[ri])
                 THEN rconv'[ri].output[k \div rcall.outputchannels] * audioscale
                 ELSE 0)
       /\ rpc' = "idle" =>
            \A c \in 0..(rcall.outputchannels - 1), n \in 0..(BlockSize - 1) :
              rcall'.output[n * rcall.outputchannels + c]
                = (StartedSum(Size(rconv), n, c))']_vars

\* a call has ended in which MaxConvolvers convolvers, each with a non-zero block,
\* share the one output channel
C11_Witness ==
  /\ rpc = "idle"
  /\ rcall.calls >= 1
  /\ Size(rconv) = MaxConvolvers
  /\ rcall.outputchannels = 1
  /\ \A i \in DOMAIN rconv : StartGate(rconv[i]) /\ rconv[i].output[0] > 0
  /\ OutputSample(0, 0) > rconv[0].output[0] * audioscale

\* a call has ended in which the last of MaxConvolvers convolvers took the 1 in
\* the last input channel and mixed its block into the one output channel
C10_Witness ==
  /\ rpc = "idle"
  /\ rcall.calls >= 1
  /\ Size(rconv) = MaxConvolvers
  /\ rcall.outputchannels = 1
  /\ rcall.inputchannels = MaxConvolvers
  /\ NonZero(rconv[MaxConvolvers - 1].input)
  /\ \A i \in 0..(MaxConvolvers - 2) : ~NonZero(rconv[i].input)
  /\ NonZero(rcall.output)

\* C27: a tick is nothing to a gated Convolver.  When its StartConvolution
\* leaves zeroblocks = maxzeroblocks, startsignal is not signalled (the thread
\* stays in its wait) and nothing else of it or of the caller's output buffer is
\* touched; and in its EndConvolution the thread's locals (the delay memory,
\* delaypos, level1, delay1, the BlockConvolver), output[] and every sample of
\* the caller's output buffer are what they were.
Gated(w) == w.zeroblocks = w.maxzeroblocks

C27_GatedTickNoOp ==
  [][/\ (rpc = "start" /\ Gated(rconv'[ri])) =>
          /\ ~rconv'[ri].startsignal
          /\ rconv'[ri].output = rconv[ri].output
          /\ rproc' = rproc
          /\ rcall'.output = rcall.output
     /\ (rpc = "end" /\ Gated(rconv[ri])) =>
          /\ ~rconv'[ri].startsignal
          /\ rconv'[ri] = rconv[ri]
          /\ rproc' = rproc
          /\ rcall'.output = rcall.output]_vars

\* a call has ended in which the first convolver mixed a non-zero block into the
\* one output channel and the second, gated, came after it
C27_Witness ==
  /\ rpc = "idle"
  /\ rcall.calls >= 1
  /\ Size(rconv) = MaxConvolvers
  /\ rcall.outputchannels = 1
  /\ StartGate(rconv[0])
  /\ Gated(rconv[MaxConvolvers - 1])
  /\ NonZero(rcall.output)
  /\ rcall.output = [k \in DOMAIN rcall.output |-> rconv[0].output[k] * audioscale]

\* C20: a call of Convolve that keeps the caller's guarantee in an exceptional
\* configuration (no convolvers; convolvers and an empty library; input that
\* was all zero in every call since the convolvers were created) has, when it
\* returns, left the cleared output buffer all zero.
C20_ExceptionalSilence ==
  (/\ rpc = "idle"
   /\ rcall.calls >= 1
   /\ RouteGuarantee
   /\ (Size(rconv) = 0 \/ Size(rlib) = 0 \/ rcall.silent)) =>
    rcall.output = Zeros(BlockSize * rcall.outputchannels)

(***************************************************************************)
(* The claims about the manager's interface.                               *)
(***************************************************************************)
\* the call just made and its arguments
Made(op) == mcall.op = op

\* C12: a SelectIR with a convolver index >= the number of convolvers or an IR
\* index >= the number of filters returns false and leaves the manager as it
\* was: the parameter table, every convolver (its filter, level and delay) and
\* updateparameters.
C12_SelectIRRejects ==
  [][(/\ mcall'.op = "SelectIR"
      /\ \/ mcall'.arg[1] >= Size(mgr.convolvers)
         \/ mcall'.arg[2] >= Size(mgr.filters))
       => (~mcall'.ok /\ mgr' = mgr)]_vars

\* a SelectIR of an existing convolver has failed for its IR index, with filters
\* loaded
C12_Witness ==
  /\ Made("SelectIR")
  /\ ~mcall.ok
  /\ mcall.arg[1] < Size(mgr.convolvers)
  /\ Size(mgr.filters) > 0
  /\ mcall.arg[2] >= Size(mgr.filters)

\* the parameter entry SelectIR(convolver, ir, level, delay) is to store
Selected == [irindex |-> mcall.arg[2], delay |-> mcall.arg[4], level |-> mcall.arg[3]]

C14_SetPartitionSize ==
  [][mcall'.op = "SetPartitionSize" =>
       IF Size(mgr.convolvers) > 0
       THEN /\ ~mcall'.ok
            /\ mgr'.blocksize = mgr.blocksize
            /\ mgr'.context = mgr.context
       ELSE /\ mcall'.ok
            /\ mgr'.blocksize = mcall'.arg[1]
            /\ mgr'.context = mcall'.arg[1]]_vars

\* a SetPartitionSize asking for another size has been refused
C14_Witness ==
  /\ Made("SetPartitionSize")
  /\ ~mcall.ok
  /\ Size(mgr.convolvers) > 0
  /\ mcall.arg[1] # mgr.blocksize

\* C15: in every state there are as many parameter entries as convolvers; a
\* SetConvolverCount(N) leaves N of each, and the convolvers below
\* min(old count, N) and their parameter entries are the ones from before.
C15_ConvolverCount ==
  [][/\ Size(mgr'.convolvers) = Size(mgr'.parameters)
     /\ mcall'.op = "SetConvolverCount" =>
          /\ Size(mgr'.convolvers) = mcall'.arg[1]
          /\ Size(mgr'.parameters) = mcall'.arg[1]
          /\ \A c \in DOMAIN mgr.convolvers :
               c < mcall'.arg[1] =>
                 /\ mgr'.convolvers[c] = mgr.convolvers[c]
                 /\ mgr'.parameters[c] = mgr.parameters[c]]_vars

\* SetConvolverCount(MaxConvolvers) has added a convolver to a static convolver
\* that has its own delay and has been through a silent tick
C15_Witness ==
  /\ Made("SetConvolverCount")
  /\ mcall.arg[1] = MaxConvolvers
  /\ Size(mgr.convolvers) = MaxConvolvers
  /\ mgr.parameters[0].delay > 0
  /\ mgr.convolvers[0].zeroblocks > 0
  /\ mgr.convolvers[MaxConvolvers - 1].zeroblocks = 0

\* C16: every convolver that a SetConvolverCount creates has the parameter entry
\* (IR 0, level 1, delay 0), whether or not IRs are loaded at that time.
C16_NewConvolverDefaults ==
  [][mcall'.op = "SetConvolverCount" =>
       \A c \in DOMAIN mgr'.convolvers \ DOMAIN mgr.convolvers :
         mgr'.parameters[c] = [irindex |-> 0, delay |-> 0, level |-> 1]]_vars

\* the delay and level UpdateConvolverParameters is to give convolver c
IRDelay(m, ir) ==
  IF ir < Size(m.irdelays)
  THEN m.irdelays[ir].static + m.irdelays[ir].dynamic * m.delayscale
  ELSE 0

Pushed(m, c) ==
  /\ m.convolvers[c].outputdelay
       = IRDelay(m, m.parameters[c].irindex) + m.parameters[c].delay
  /\ m.convolvers[c].outputlevel = m.parameters[c].level

\* C17: after a successful SelectIR of convolver w, and after a tick entered with
\* updateparameters set for every convolver whose IR index is in the library, the
\* convolver's delay is static[ir] + dynamic[ir] * delayscale + the entry's
\* delay (the IR's part 0 when the table has no entry for ir) and its level is
\* the entry's level.
C17_EffectiveDelay ==
  [][/\ (mcall'.op = "SelectIR" /\ mcall'.ok) => Pushed(mgr', mcall'.arg[1])
     /\ (mcall'.op = "Convolve" /\ mgr.updateparameters) =>
          \A c \in DOMAIN mgr.convolvers :
            mgr.parameters[c].irindex < Size(mgr.filters) => Pushed(mgr', c)]_vars

\* a tick has given convolver 0 the delay of IR 1 with the scale 2 and the
\* delay selected for it
C17_Witness ==
  /\ Made("Convolve")
  /\ mgr.delayscale = 2
  /\ Size(mgr.convolvers) > 0
  /\ Size(mgr.irdelays) > 1
  /\ mgr.parameters[0] = [irindex |-> 1, delay |-> MaxDelayArg, level |-> 2]
  /\ mgr.convolvers[0].outputdelay
       = mgr.irdelays[1].static + 2 * mgr.irdelays[1].dynamic + MaxDelayArg
  /\ mgr.convolvers[0].outputlevel = 2

\* C24: when a tick has started its convolvers, every convolver's level, delay
\* and hq flag are the ones the manager's tables give (its parameters entry, the
\* IR delays, the delay scale, the manager's hq flag), whatever calls came
\* before the tick.
C24_ParameterConsistency ==
  [][mcall'.op = "Convolve" =>
       \A c \in DOMAIN mgr'.convolvers :
         /\ Pushed(mgr', c)
         /\ mgr'.convolvers[c].hqproc = mgr'.hqproc]_vars

\* the smallest whole number not below a / b, for a >= 0 and b > 0
CeilDiv(a, b) == (a + b - 1) \div b

\* C31: every Convolver's maxzeroblocks is its partitions plus
\* ceil(maxadditionaldelay / blocksize) plus 1, for every block size and
\* number of partitions the manager creates it with.
C31_MaxZeroBlocks ==
  \A c \in DOMAIN mgr.convolvers :
    mgr.convolvers[c].maxzeroblocks =
      mgr.convolvers[c].partitions
        + CeilDiv(MaxAdditionalDelay, mgr.convolvers[c].blocksize) + 1

\* the filter a Convolver refers to, where the library still holds it
Attached(m, c) ==
  /\ m.convolvers[c].filter # NULL
  /\ m.convolvers[c].filter \in DOMAIN m.filters

FilterOf(m, c) == m.filters[m.convolvers[c].filter]

\* C34: in every state, a Convolver that refers to a filter has the number of
\* partitions of that filter (those of an IR of the filter's length at the
\* filter's block size), whatever the order of the calls.
C34_PartitionAgreement ==
  \A c \in DOMAIN mgr.convolvers :
    Attached(mgr, c) =>
      mgr.convolvers[c].partitions =
        CeilDiv(Len(FilterOf(mgr, c).ir), FilterOf(mgr, c).blocksize)

\* C35: a call that gives a Convolver a filter (a new Convolver's first one, or
\* another than it had) gives it one built with the block size and context the
\* manager, and the Convolver, have now.
C35_NoFilterMismatch ==
  [][\A c \in DOMAIN mgr'.convolvers :
       (/\ Attached(mgr', c)
        /\ (c \in DOMAIN mgr.convolvers =>
              mgr'.convolvers[c].filter # mgr.convolvers[c].filter)) =>
         /\ FilterOf(mgr', c).blocksize = mgr'.blocksize
         /\ FilterOf(mgr', c).blocksize = mgr'.context
         /\ FilterOf(mgr', c).blocksize = mgr'.convolvers[c].blocksize]_vars

LineTable(lines) ==
  [i \in 0..(Len(lines) - 1) |->
     [dynamic |-> lines[i + 1][1].value, static |-> lines[i + 1][2].value]]

\* C39: LoadIRDelays on a file each of whose lines starts with two numbers
\* leaves one pair for each line, the line's first two numbers; what else a
\* line holds adds no pair and changes none.
C39_LineOriented ==
  (/\ Made("LoadIRDelays")
   /\ mcall.ok
   /\ \A i \in DOMAIN mcall.arg[1].lines :
        /\ Len(mcall.arg[1].lines[i]) >= 2
        /\ mcall.arg[1].lines[i][1].numeric
        /\ mcall.arg[1].lines[i][2].numeric) =>
    mgr.irdelays = LineTable(mcall.arg[1].lines)

\* C19: after a LoadIRs that failed (a null file name, a file that cannot be
\* opened, an empty file) the library holds no filter.
C19_FailedLoadClears ==
  (Made("LoadIRs") /\ ~mcall.ok) => Size(mgr.filters) = 0

(***************************************************************************)
(* The claim about the filter references (Spec).                           *)
(***************************************************************************)
\* C18: in every state the filter a convolver refers to (the pointer SetFilter
\* stored, here the filter's index) is a filter of the manager's library.
C18_FilterRefsValid ==
  \A c \in DOMAIN convolvers :
    convolvers[c].filter # NULL => convolvers[c].filter \in DOMAIN filters

(***************************************************************************)
(* The claims about the sizes (SizingSpec).                                *)
(***************************************************************************)
\* C32 as stated: the delay memory of a Convolver's thread is
\* (1 + ceil((maxdelay + blocksize - 1) / blocksize)) * blocksize samples long,
\* a positive multiple of blocksize.
C32_DelayLenTwiceRounded ==
  mcall.op = "SetConvolverCount" =>
    /\ dpr.delaylen
         = (1 + CeilDiv(MaxAdditionalDelay + dcv.blocksize - 1, dcv.blocksize))
           * dcv.blocksize
    /\ dpr.delaylen > 0
    /\ dpr.delaylen % dcv.blocksize = 0

\* C32: the delay memory of a Convolver's thread is
\* (1 + ceil(maxdelay / blocksize)) * blocksize samples long: a positive
\* multiple of blocksize, the least one that holds maxdelay + blocksize samples.
C32_DelayLen ==
  mcall.op = "SetConvolverCount" =>
    /\ dpr.delaylen = (1 + CeilDiv(MaxAdditionalDelay, dcv.blocksize)) * dcv.blocksize
    /\ dpr.delaylen > 0
    /\ dpr.delaylen % dcv.blocksize = 0
    /\ dpr.delaylen >= MaxAdditionalDelay + dcv.blocksize
    /\ dpr.delaylen - dcv.blocksize < MaxAdditionalDelay + dcv.blocksize

\* a Convolver was created with a block size for which rounding
\* maxdelay + blocksize - 1 up gives a block more
C32_Witness ==
  /\ mcall.op = "SetConvolverCount"
  /\ dcv.blocksize = mgr.blocksize
  /\ CeilDiv(MaxAdditionalDelay + dcv.blocksize - 1, dcv.blocksize)
       # CeilDiv(MaxAdditionalDelay, dcv.blocksize)

\* a CreateIRs of numirs IRs of irlength samples, neither zero
CutMade == mcall.op = "CreateIRs" /\ mcall.arg[1] # 0 /\ mcall.arg[2] # 0

\* C37: for every fade, IR length and block size CalcPartitions gives a cut
\* inside the IR (filterstart + filterlen <= irlength) and returns
\* ceil(filterlen / blocksize); with fade_out_start + fade_out_length = 0 the cut
\* runs to the end of the IR (filterlen = irlength - filterstart), also when
\* fade_in_start lies past the end of the IR.
C37_CutInsideIR ==
  CutMade =>
    LET local == mcall.local
        fade  == mcall.arg[3]
    IN /\ local.filterstart + local.filterlen <= mcall.arg[2]
       /\ local.partitions = CeilDiv(local.filterlen, mgr.blocksize)
       /\ (fade.fade_out_start + fade.fade_out_length = 0) =>
            local.filterlen = mcall.arg[2] - local.filterstart

\* C38: ApplyFades multiplies samples of the buffer of filterlen samples only:
\* the first ceil(fade_in_length * samplerate) and the last
\* ceil(fade_out_length * samplerate) of them, for every fade CreateIRs takes,
\* also one longer than the filter.
C38_FadesInsideBuffer ==
  CutMade =>
    LET local == mcall.local
    IN /\ local.touched \subseteq 0..(local.filterlen - 1)
       /\ local.touched = (0..(local.fadein - 1))
                            \cup ((local.filterlen - local.fadeout)..(local.filterlen - 1))

====
